---- MODULE Spec2Model ----
(***************************************************************************)
(* Verification model of the G1 concurrent refinement thread chain         *)
(* (concurrentG1RefineThread.cpp), the object-header forwarding protocol   *)
(* and the compressed-oop encoding (oop.inline.hpp).                       *)
(***************************************************************************)
EXTENDS Integers, Sequences, FiniteSets, TLC

(* ------------------------------------------------------------------ *)
(* Bounds                                                               *)
(* ------------------------------------------------------------------ *)

\* Number of refinement threads in the chain (worker ids 0..NThreads-1).
NThreads == 3

\* Total number of completed buffers the mutators hand over in one run.
MaxBuffers == 4

\* Number of safepoints requested in one run.
MaxSafepoints == 1

\* Heap of the remembered-set model: regions, cards and cards per buffer.
NRegions == 2

NCards == 2

BufferSize == 1

\* Evacuation workers racing for one object, and forward_to_atomic calls
\* they make on it in one pause.
NWorkers == 2

MaxCalls == 3

\* Width of an address and of a narrowOop, in bits.
AddressBits == 8

NarrowOopBits == 4

\* update_thresholds calls made in a run.
MaxUpdates == 2
\* Largest threshold handed to update_thresholds.
MaxThreshold == 2

\* Heap regions of the region table.
NHRegions == 2
\* HeapRegion calls made in a run.
MaxHRCalls == 5
\* Words of a heap region (HeapRegion::GrainWords, scaled down).
GrainWords == 2

\* Reference fields of the humongous object a card scan looks at.
NHFields == 2

\* Words of the old region whose cards are scanned, and of its largest block.
RegionWords == 4

MaxBlockWords == 2

\* Words of the region whose time stamp is followed, and the largest value
\* of the heap's time stamp.
TsWords == 2

MaxStamp == 2

\* Classes of one dictionary bucket, protection domains, lock-free readers.
NClasses == 2

NPDs == 3

NReaders == 1

\* Threads that call set_shared_protection_domain, the calls they make in
\* all, and the modules a reads list can hold.
NCallers == 3

MaxPdCalls == 4

NModules == 4

\* File outputs that can be created and tag sets that log.
NFiles == 2

NTagSets == 2
\* Card scans of the humongous region in a run.
MaxScans == 2

\* Objects below top in the region being verified.
NVObjects == 2

\* adjust_desired_plab_sz calls made in a run.
MaxPlabRounds == 3

\* Width of a size_t, in bits.
SizeTBits == 12

\* Threads that may call activate() on one refinement thread.
NActivators == 3

Threads == 0 .. (NThreads - 1)

Workers == 1 .. NWorkers

BufIds == 1 .. MaxBuffers

Regions == 1 .. NRegions

Cards == 1 .. NCards

\* The region a card (and the reference field on it) lies in.
RegionOf(c) == ((c - 1) % NRegions) + 1

\* "no buffer" held by a refinement thread
NoBuf == [id |-> 0, cards |-> <<>>]

VARIABLES
    pc,                       \* position of each refinement thread in run_service
    active,                   \* ConcurrentG1RefineThread::_active
    activation_threshold,     \* ConcurrentG1RefineThread::_activation_threshold
    deactivation_threshold,   \* ConcurrentG1RefineThread::_deactivation_threshold
    curr_buffer_num,          \* run_service local curr_buffer_num
    cur_buf,                  \* buffer a thread took from the queue and is refining
    should_terminate,         \* ConcurrentGCThread::_should_terminate
    queue,                    \* DirtyCardQueueSet completed buffer list
    process_completed,        \* DirtyCardQueueSet::_process_completed
    completed_queue_padding,  \* DirtyCardQueueSet::_completed_queue_padding
    n_enqueued,               \* buffers handed over so far (identity of the next one)
    n_processed,              \* per buffer: how many times it was processed
    peak,                     \* largest backlog the queue has had so far
    suspend_all,              \* SuspendibleThreadSet::_suspend_all
    in_pause,                 \* the safepoint operation is running
    sts_joined,               \* threads that joined the suspendible thread set
    sts_stopped,              \* joined threads blocked in yield()
    n_safepoints,             \* safepoints requested so far
    field,                    \* per card: region its reference field points into (0 = NULL)
    dirty,                    \* card table: the card is dirty
    rem_set,                  \* per region: cards recorded as holding a reference into it
    mut_buf,                  \* the mutator's dirty card queue (buffer being filled)
    mark,                     \* oopDesc::_mark of the object the workers race for
    fpc,                      \* position of each worker in forward_to_atomic
    fwd_p,                    \* forward_to_atomic parameter p of each worker
    oldMark,                  \* forward_to_atomic local oldMark of each worker
    calls,                    \* finished forward_to_atomic calls: worker, p, result
    n_calls,                  \* forward_to_atomic calls started so far
    narrow_oop_base,          \* Universe::narrow_oop_base()
    narrow_oop_shift,         \* Universe::narrow_oop_shift()
    oop_orig,                 \* the value a conversion round trip started from
    oop_wide,                 \* the oop of the round trip
    oop_narrow,               \* the narrowOop of the round trip
    oop_step,                 \* conversions of the round trip done so far
    n_updates,                \* update_thresholds calls made so far
    hr,                       \* the heap regions: per region its HeapRegion fields
    hr_last,                  \* the last HeapRegion call made
    hr_repeat,                \* the last call repeats the call made before it
    hr_failed,                \* an assertion of the last call failed (the VM stopped)
    hr_calls,                 \* HeapRegion calls made so far
    h_pc,                     \* position of the thread allocating the humongous object
    h_sb,                     \* its stores not yet visible to other threads, in program order
    h_klass,                  \* the object's klass word as other threads see it
    h_init,                   \* the object's fields whose initial value other threads see
    gc_active,                \* G1CollectedHeap::is_gc_active()
    s_pc,                     \* position of the scan in do_oops_on_card_in_humongous
    s_scan,                   \* the scan under way: its card, what it read and visited
    scans,                    \* the scans that returned
    n_scans,                  \* scans started so far
    v_from_young,             \* the region being verified is young
    v_max_failures,           \* the value of the flag G1MaxVerifyFailures
    v_obj,                    \* its objects, in address order: liveness, kind, field, cards
    v_before,                 \* the objects as they were when verification began
    v_result,                 \* what verify_rem_set reported
    ResizePLAB,               \* the flag ResizePLAB
    p_pc,                     \* a collection left its counts / they were adjusted
    p_stats,                  \* G1EvacStats accumulators of the current collection
    p_fed,                    \* the accumulators as the last collection left them
    p_desired,                \* PLABStats::_desired_net_plab_sz
    p_filter,                 \* PLABStats::_filter: its average, in 1/FilterScale words
    p_before,                 \* desired size and filter before the last adjustment
    p_rounds,                 \* adjustments made so far (0 before the first)
    ih_last,                  \* the last identity_hash() call: mark read, path, result
    ft_last,                  \* the last forward_to() or cas_forward_to() call
    did_activate,             \* threads that activated their successor in this iteration
    m_owner,                  \* holder of the thread's _monitor (0 = none, 1 = the thread)
    m_active,                 \* what is_active() of the thread reads
    t_pc,                     \* the thread in wait_for_completed_buffers / deactivate
    a_pc,                     \* each activator in activate()
    scan,                     \* oops_on_card_seq_iterate_careful on an old region
    ts,                       \* a region's top, _scan_top, _gc_time_stamp and the heap's stamp
    dict,                     \* a dictionary bucket, an entry's pd_set and their readers
    mod,                      \* a ModuleEntry: _pd, its handles, its reads list
    logc                      \* LogConfiguration: _outputs, _n_outputs and the tag sets

chain_vars == <<pc, active, activation_threshold, deactivation_threshold,
                curr_buffer_num, cur_buf, should_terminate, queue,
                process_completed, completed_queue_padding, n_enqueued,
                n_processed, peak, suspend_all, in_pause, sts_joined,
                sts_stopped, n_safepoints>>

heap_vars == <<field, dirty, rem_set, mut_buf>>

fwd_vars == <<mark, fpc, fwd_p, oldMark, calls, n_calls>>

oop_vars == <<narrow_oop_base, narrow_oop_shift, oop_orig, oop_wide,
              oop_narrow, oop_step>>

thr_vars == <<n_updates>>

\* State outside the refinement chain, the forwarding race and the oop
\* conversions.
hr_vars == <<hr, hr_last, hr_repeat, hr_failed, hr_calls>>

hum_vars == <<h_pc, h_sb, h_klass, h_init, gc_active, s_pc, s_scan, scans,
              n_scans>>

ver_vars == <<v_from_young, v_max_failures, v_obj, v_before, v_result>>

plab_vars == <<ResizePLAB, p_pc, p_stats, p_fed, p_desired, p_filter, p_before,
               p_rounds>>

\* State of the parts modelled further below.
hash_vars == <<ih_last, ft_last>>

iter_vars == <<did_activate>>

mon_vars == <<m_owner, m_active, t_pc, a_pc>>

\* One record each for the parts modelled last: the card scan of an old
\* region, the time stamps of a region, a dictionary bucket, a module entry
\* and the log configuration.
new_vars == <<scan, ts, dict, mod, logc>>

late_vars == <<plab_vars, hash_vars, iter_vars, mon_vars, new_vars>>

\* What a step of run_service that touches iter_vars leaves alone.
noniter_vars == <<fwd_vars, oop_vars, thr_vars, hr_vars, hum_vars, ver_vars,
                  plab_vars, hash_vars, mon_vars, new_vars>>

ext_vars == <<thr_vars, hr_vars, hum_vars, ver_vars, late_vars>>

\* What the steps of the refinement chain, the mutators and the safepoint
\* leave alone.
nonchain_vars == <<fwd_vars, oop_vars, ext_vars>>

\* What the steps of forward_to_atomic leave alone.
nonfwd_vars == <<chain_vars, heap_vars, oop_vars, ext_vars>>

\* What the oop conversions leave alone.
nonoop_vars == <<chain_vars, heap_vars, fwd_vars, ext_vars>>

vars == <<chain_vars, heap_vars, fwd_vars, oop_vars, ext_vars>>

\* Everything but the parts modelled last.
old_vars == <<chain_vars, heap_vars, fwd_vars, oop_vars, thr_vars, hr_vars,
              hum_vars, ver_vars, plab_vars, hash_vars, iter_vars, mon_vars>>

(* ------------------------------------------------------------------ *)
(* Configuration of the chain                                            *)
(* ------------------------------------------------------------------ *)

\* Thresholds handed to the constructors: threads 0 and 1 are switched on
\* above one buffer, every later thread two buffers above its predecessor;
\* each thread switches itself off one buffer below its activation threshold.
InitActivation == [t \in Threads |-> IF t = 0 THEN 1 ELSE 2 * t - 1]

InitDeactivation == [t \in Threads |-> InitActivation[t] - 1]

\* Backlog above which the queue asks for processing (wakes thread 0).
ProcessCompletedThreshold == InitActivation[0]

\* Backlog at or below which the post-pause padding is withdrawn.
yellow_zone == InitActivation[NThreads - 1]

is_primary(t) == t = 0

is_null(v) == v = 0

Max(a, b) == IF a >= b THEN a ELSE b

(* ------------------------------------------------------------------ *)
(* Dirty card queue set and remembered sets                              *)
(* ------------------------------------------------------------------ *)

completed_buffers_num == Len(queue)

\* A mutator hands a full buffer over: it is linked at the tail, and the
\* queue asks for processing once the backlog exceeds the threshold.
enqueue_complete_buffer(cards) ==
    /\ n_enqueued < MaxBuffers
    /\ queue' = Append(queue, [id |-> n_enqueued + 1, cards |-> cards])
    /\ n_enqueued' = n_enqueued + 1
    /\ process_completed' =
         (process_completed \/ Len(queue) + 1 > ProcessCompletedThreshold)
    /\ peak' = Max(peak, Len(queue) + 1)

\* The card holds a reference into another region.
CrossRegion(c) == field[c] # 0 /\ field[c] # RegionOf(c)

\* Buffers are not flushed before verification.
G1HRRSFlushLogBuffersOnVerify == FALSE

\* VerifyRemSetClosure::verify_remembered_set on the field of card c (every
\* region of this heap is old and not pinned): a non-null reference into
\* another region is bad unless the target's remembered set contains it or,
\* buffers not having been flushed, its card is dirty.
is_bad(c) ==
    /\ ~is_null(field[c])
    /\ RegionOf(c) # field[c]
    /\ ~(\/ c \in rem_set[field[c]]
         \/ (~G1HRRSFlushLogBuffersOnVerify /\ dirty[c]))

RECURSIVE RefineCards(_, _)
\* Remembered sets after refining the cards of one buffer: a card that still
\* holds a cross-region reference is recorded in the target's remembered
\* set, any other card is dropped.
RefineCards(cards, rs) ==
    IF cards = <<>> THEN rs
    ELSE LET c == Head(cards)
             rs1 == IF CrossRegion(c)
                    THEN [rs EXCEPT ![field[c]] = @ \cup {c}]
                    ELSE rs
         IN RefineCards(Tail(cards), rs1)

CardsOf(cards) == {cards[i] : i \in 1 .. Len(cards)}

\* Refinement unit of work on a buffer already taken from the queue.
refine_buffer(buf) ==
    /\ rem_set' = RefineCards(buf.cards, rem_set)
    /\ dirty' = [c \in Cards |-> IF c \in CardsOf(buf.cards) THEN FALSE ELSE dirty[c]]
    /\ n_processed' = IF buf.id \in BufIds
                      THEN [n_processed EXCEPT ![buf.id] = @ + 1]
                      ELSE n_processed

(* ------------------------------------------------------------------ *)
(* ConcurrentG1RefineThread                                              *)
(* ------------------------------------------------------------------ *)

is_active(t) == IF is_primary(t) THEN process_completed ELSE active[t]

\* activate(): under the thread's monitor, set the flag and notify.
activate(t) ==
    /\ active' = IF is_primary(t) THEN active ELSE [active EXCEPT ![t] = TRUE]
    /\ process_completed' = IF is_primary(t) THEN TRUE ELSE process_completed

\* deactivate(): under the thread's monitor, clear the flag.
deactivate(t) ==
    /\ active' = IF is_primary(t) THEN active ELSE [active EXCEPT ![t] = FALSE]
    /\ process_completed' = IF is_primary(t) THEN FALSE ELSE process_completed

\* Mutant of WaitForCompletedBuffers: the wait tests the thread's own
\* _active flag, also for the primary thread.
WaitForCompletedBuffers_OwnFlag(t) ==
    /\ pc[t] = "wait"
    /\ should_terminate \/ active[t]
    /\ pc' = [pc EXCEPT ![t] = IF should_terminate THEN "done" ELSE "join"]
    /\ UNCHANGED <<active, activation_threshold, deactivation_threshold,
                   curr_buffer_num, cur_buf, should_terminate, queue,
                   process_completed, completed_queue_padding, n_enqueued,
                   n_processed, peak, suspend_all, in_pause, sts_joined,
                   sts_stopped, n_safepoints, heap_vars, nonchain_vars>>

\* Mutant of WaitForCompletedBuffers: the wait loop does not test
\* should_terminate().
WaitForCompletedBuffers_NoTerminate(t) ==
    /\ pc[t] = "wait"
    /\ is_active(t)
    /\ pc' = [pc EXCEPT ![t] = IF should_terminate THEN "done" ELSE "join"]
    /\ UNCHANGED <<active, activation_threshold, deactivation_threshold,
                   curr_buffer_num, cur_buf, should_terminate, queue,
                   process_completed, completed_queue_padding, n_enqueued,
                   n_processed, peak, suspend_all, in_pause, sts_joined,
                   sts_stopped, n_safepoints, heap_vars, nonchain_vars>>

\* wait_for_completed_buffers() returns once the thread is active or told
\* to terminate; run_service then leaves (terminate) or enters the joiner
\* scope.
WaitForCompletedBuffers(t) ==
    /\ pc[t] = "wait"
    /\ should_terminate \/ is_active(t)
    /\ pc' = [pc EXCEPT ![t] = IF should_terminate THEN "done" ELSE "join"]
    /\ UNCHANGED <<active, activation_threshold, deactivation_threshold,
                   curr_buffer_num, cur_buf, should_terminate, queue,
                   process_completed, completed_queue_padding, n_enqueued,
                   n_processed, peak, suspend_all, in_pause, sts_joined,
                   sts_stopped, n_safepoints, heap_vars, nonchain_vars>>

\* Mutant of StsJoin: the loop is entered without a joiner, so the thread
\* is not counted in the suspendible thread set.
StsJoin_NoJoiner(t) ==
    /\ pc[t] = "join"
    /\ pc' = [pc EXCEPT ![t] = "loop"]
    /\ UNCHANGED <<active, activation_threshold, deactivation_threshold,
                   curr_buffer_num, cur_buf, should_terminate, queue,
                   process_completed, completed_queue_padding, n_enqueued,
                   n_processed, peak, suspend_all, in_pause, sts_joined,
                   sts_stopped, n_safepoints, heap_vars, nonchain_vars>>

\* SuspendibleThreadSetJoiner sts_join: join() waits while a safepoint is
\* requested or running, then counts the thread in.
StsJoin(t) ==
    /\ pc[t] = "join"
    /\ ~suspend_all
    /\ sts_joined' = sts_joined \cup {t}
    /\ pc' = [pc EXCEPT ![t] = "loop"]
    /\ UNCHANGED <<active, activation_threshold, deactivation_threshold,
                   curr_buffer_num, cur_buf, should_terminate, queue,
                   process_completed, completed_queue_padding, n_enqueued,
                   n_processed, peak, suspend_all, in_pause,
                   sts_stopped, n_safepoints, heap_vars, nonchain_vars>>

\* Mutant of LoopHead: the backlog is read without asking should_yield().
LoopHead_NoYieldCheck(t) ==
    /\ pc[t] = "loop"
    /\ IF should_terminate
       THEN /\ pc' = [pc EXCEPT ![t] = "deact"]
            /\ sts_joined' = sts_joined \ {t}
            /\ UNCHANGED <<sts_stopped, curr_buffer_num, completed_queue_padding>>
       ELSE /\ pc' = [pc EXCEPT ![t] = "next"]
            /\ curr_buffer_num' = [curr_buffer_num EXCEPT ![t] = completed_buffers_num]
            /\ completed_queue_padding' =
                 IF completed_queue_padding > 0 /\ completed_buffers_num <= yellow_zone
                 THEN 0 ELSE completed_queue_padding
            /\ UNCHANGED <<sts_joined, sts_stopped>>
    /\ UNCHANGED <<active, activation_threshold, deactivation_threshold,
                   cur_buf, should_terminate, queue, process_completed,
                   n_enqueued, n_processed, peak, suspend_all, in_pause,
                   n_safepoints, heap_vars, nonchain_vars>>

\* Head of the inner loop: termination check, yield check, then the read
\* of the backlog and the withdrawal of the padding.
LoopHead(t) ==
    /\ pc[t] = "loop"
    /\ IF should_terminate
       THEN /\ pc' = [pc EXCEPT ![t] = "deact"]
            /\ sts_joined' = sts_joined \ {t}
            /\ UNCHANGED <<sts_stopped, curr_buffer_num, completed_queue_padding>>
       ELSE IF suspend_all
       THEN /\ pc' = [pc EXCEPT ![t] = "yield"]
            /\ sts_stopped' = sts_stopped \cup {t}
            /\ UNCHANGED <<sts_joined, curr_buffer_num, completed_queue_padding>>
       ELSE /\ pc' = [pc EXCEPT ![t] = "next"]
            /\ curr_buffer_num' = [curr_buffer_num EXCEPT ![t] = completed_buffers_num]
            /\ completed_queue_padding' =
                 IF completed_queue_padding > 0 /\ completed_buffers_num <= yellow_zone
                 THEN 0 ELSE completed_queue_padding
            /\ UNCHANGED <<sts_joined, sts_stopped>>
    /\ UNCHANGED <<active, activation_threshold, deactivation_threshold,
                   cur_buf, should_terminate, queue, process_completed,
                   n_enqueued, n_processed, peak, suspend_all, in_pause,
                   n_safepoints, heap_vars, nonchain_vars>>

\* sts_join.yield(): blocked until the safepoint is over, then back to the
\* loop head (continue).
Yield(t) ==
    /\ pc[t] = "yield"
    /\ ~suspend_all
    /\ sts_stopped' = sts_stopped \ {t}
    /\ pc' = [pc EXCEPT ![t] = "loop"]
    /\ UNCHANGED <<active, activation_threshold, deactivation_threshold,
                   curr_buffer_num, cur_buf, should_terminate, queue,
                   process_completed, completed_queue_padding, n_enqueued,
                   n_processed, peak, suspend_all, in_pause, sts_joined,
                   n_safepoints, heap_vars, nonchain_vars>>

\* Mutant of ActivateNext: the next thread is switched on whenever it is
\* inactive, whatever the backlog.
ActivateNext_NoThreshold(t) ==
    /\ pc[t] = "next"
    /\ IF t + 1 \in Threads /\ ~is_active(t + 1)
       THEN activate(t + 1)
       ELSE UNCHANGED <<active, process_completed>>
    /\ pc' = [pc EXCEPT ![t] = "apply"]
    /\ curr_buffer_num' = [curr_buffer_num EXCEPT ![t] = 0]
    /\ UNCHANGED <<activation_threshold, deactivation_threshold,
                   cur_buf, should_terminate, queue,
                   completed_queue_padding, n_enqueued,
                   n_processed, peak, suspend_all, in_pause, sts_joined,
                   sts_stopped, n_safepoints, heap_vars, noniter_vars>>
    /\ did_activate' = IF t + 1 \in Threads /\ ~is_active(t + 1)
                       THEN did_activate \cup {t} ELSE did_activate \ {t}

\* Mutant of ActivateNext: the backlog is compared with the thread's own
\* activation threshold instead of the next thread's.
ActivateNext_OwnThreshold(t) ==
    /\ pc[t] = "next"
    /\ IF /\ t + 1 \in Threads
          /\ ~is_active(t + 1)
          /\ curr_buffer_num[t] > activation_threshold[t]
       THEN activate(t + 1)
       ELSE UNCHANGED <<active, process_completed>>
    /\ pc' = [pc EXCEPT ![t] = "apply"]
    /\ curr_buffer_num' = [curr_buffer_num EXCEPT ![t] = 0]
    /\ UNCHANGED <<activation_threshold, deactivation_threshold,
                   cur_buf, should_terminate, queue,
                   completed_queue_padding, n_enqueued,
                   n_processed, peak, suspend_all, in_pause, sts_joined,
                   sts_stopped, n_safepoints, heap_vars, noniter_vars>>
    /\ did_activate' = IF /\ t + 1 \in Threads
                          /\ ~is_active(t + 1)
                          /\ curr_buffer_num[t] > activation_threshold[t]
                       THEN did_activate \cup {t} ELSE did_activate \ {t}

\* Mutant of ActivateNext: the next thread is activated only once the
\* backlog is two above its activation threshold.
ActivateNext_Late(t) ==
    /\ pc[t] = "next"
    /\ IF /\ t + 1 \in Threads
          /\ ~is_active(t + 1)
          /\ curr_buffer_num[t] > activation_threshold[t + 1] + 1
       THEN activate(t + 1)
       ELSE UNCHANGED <<active, process_completed>>
    /\ pc' = [pc EXCEPT ![t] = "apply"]
    /\ curr_buffer_num' = [curr_buffer_num EXCEPT ![t] = 0]
    /\ UNCHANGED <<activation_threshold, deactivation_threshold,
                   cur_buf, should_terminate, queue,
                   completed_queue_padding, n_enqueued,
                   n_processed, peak, suspend_all, in_pause, sts_joined,
                   sts_stopped, n_safepoints, heap_vars, noniter_vars>>
    /\ did_activate' = IF /\ t + 1 \in Threads
                          /\ ~is_active(t + 1)
                          /\ curr_buffer_num[t] > activation_threshold[t + 1] + 1
                       THEN did_activate \cup {t} ELSE did_activate \ {t}

\* Check if we need to activate the next thread; curr_buffer_num is not
\* read again in this iteration.
ActivateNext(t) ==
    /\ pc[t] = "next"
    /\ IF /\ t + 1 \in Threads
          /\ ~is_active(t + 1)
          /\ curr_buffer_num[t] > activation_threshold[t + 1]
       THEN activate(t + 1)
       ELSE UNCHANGED <<active, process_completed>>
    /\ pc' = [pc EXCEPT ![t] = "apply"]
    /\ curr_buffer_num' = [curr_buffer_num EXCEPT ![t] = 0]
    /\ UNCHANGED <<activation_threshold, deactivation_threshold,
                   cur_buf, should_terminate, queue,
                   completed_queue_padding, n_enqueued,
                   n_processed, peak, suspend_all, in_pause, sts_joined,
                   sts_stopped, n_safepoints, heap_vars, noniter_vars>>
    /\ did_activate' = IF /\ t + 1 \in Threads
                          /\ ~is_active(t + 1)
                          /\ curr_buffer_num[t] > activation_threshold[t + 1]
                       THEN did_activate \cup {t} ELSE did_activate \ {t}

\* Mutant of ApplyClosure: the head buffer is refined but left on the queue.
ApplyClosure_NoDequeue(t) ==
    /\ pc[t] = "apply"
    /\ IF completed_buffers_num <= deactivation_threshold[t]
       THEN /\ pc' = [pc EXCEPT ![t] = "deact"]
            /\ sts_joined' = sts_joined \ {t}
            /\ UNCHANGED <<queue, cur_buf>>
       ELSE /\ pc' = [pc EXCEPT ![t] = "process"]
            /\ cur_buf' = [cur_buf EXCEPT ![t] = Head(queue)]
            /\ UNCHANGED <<queue, sts_joined>>
    /\ UNCHANGED <<active, activation_threshold, deactivation_threshold,
                   curr_buffer_num, should_terminate,
                   process_completed, completed_queue_padding, n_enqueued,
                   n_processed, peak, suspend_all, in_pause,
                   sts_stopped, n_safepoints, heap_vars, noniter_vars>>
    /\ did_activate' = did_activate \ {t}

\* Mutant of ApplyClosure: the activation threshold is passed as the
\* stop-at backlog instead of the deactivation threshold.
ApplyClosure_ActivationStop(t) ==
    /\ pc[t] = "apply"
    /\ IF completed_buffers_num <= activation_threshold[t]
       THEN /\ pc' = [pc EXCEPT ![t] = "deact"]
            /\ sts_joined' = sts_joined \ {t}
            /\ UNCHANGED <<queue, cur_buf>>
       ELSE /\ pc' = [pc EXCEPT ![t] = "process"]
            /\ cur_buf' = [cur_buf EXCEPT ![t] = Head(queue)]
            /\ queue' = Tail(queue)
            /\ UNCHANGED sts_joined
    /\ UNCHANGED <<active, activation_threshold, deactivation_threshold,
                   curr_buffer_num, should_terminate,
                   process_completed, completed_queue_padding, n_enqueued,
                   n_processed, peak, suspend_all, in_pause,
                   sts_stopped, n_safepoints, heap_vars, noniter_vars>>
    /\ did_activate' = did_activate \ {t}

\* apply_closure_to_completed_buffer(..., _deactivation_threshold, false):
\* either the backlog is at or below the threshold (the loop is left, and
\* with it the joiner scope), or the head buffer is taken off the queue.
ApplyClosure(t) ==
    /\ pc[t] = "apply"
    /\ IF completed_buffers_num <= deactivation_threshold[t]
       THEN /\ pc' = [pc EXCEPT ![t] = "deact"]
            /\ sts_joined' = sts_joined \ {t}
            /\ UNCHANGED <<queue, cur_buf>>
       ELSE /\ pc' = [pc EXCEPT ![t] = "process"]
            /\ cur_buf' = [cur_buf EXCEPT ![t] = Head(queue)]
            /\ queue' = Tail(queue)
            /\ UNCHANGED sts_joined
    /\ UNCHANGED <<active, activation_threshold, deactivation_threshold,
                   curr_buffer_num, should_terminate,
                   process_completed, completed_queue_padding, n_enqueued,
                   n_processed, peak, suspend_all, in_pause,
                   sts_stopped, n_safepoints, heap_vars, noniter_vars>>
    /\ did_activate' = did_activate \ {t}

\* Mutant of ProcessBuffer: the buffer taken is released without the
\* closure having been applied to its cards.
ProcessBuffer_Unrefined(t) ==
    /\ pc[t] = "process"
    /\ cur_buf' = [cur_buf EXCEPT ![t] = NoBuf]
    /\ pc' = [pc EXCEPT ![t] = "loop"]
    /\ UNCHANGED <<active, activation_threshold, deactivation_threshold,
                   curr_buffer_num, should_terminate, queue,
                   process_completed, completed_queue_padding, n_enqueued,
                   n_processed, peak, suspend_all, in_pause, sts_joined,
                   sts_stopped, n_safepoints, heap_vars, nonchain_vars>>

\* The refinement closure runs over the buffer taken; ++buffers_processed.
ProcessBuffer(t) ==
    /\ pc[t] = "process"
    /\ refine_buffer(cur_buf[t])
    /\ cur_buf' = [cur_buf EXCEPT ![t] = NoBuf]
    /\ pc' = [pc EXCEPT ![t] = "loop"]
    /\ UNCHANGED <<active, activation_threshold, deactivation_threshold,
                   curr_buffer_num, should_terminate, queue,
                   process_completed, completed_queue_padding, n_enqueued,
                   peak, suspend_all, in_pause, sts_joined,
                   sts_stopped, n_safepoints, field, mut_buf, nonchain_vars>>

\* deactivate() after the joiner scope, then back to the outer loop.
Deactivate(t) ==
    /\ pc[t] = "deact"
    /\ deactivate(t)
    /\ pc' = [pc EXCEPT ![t] = "wait"]
    /\ UNCHANGED <<activation_threshold, deactivation_threshold,
                   curr_buffer_num, cur_buf, should_terminate, queue,
                   completed_queue_padding, n_enqueued,
                   n_processed, peak, suspend_all, in_pause, sts_joined,
                   sts_stopped, n_safepoints, heap_vars, nonchain_vars>>

\* stop(): the termination flag is set and stop_service() notifies the
\* thread's monitor.
stop_service ==
    /\ ~should_terminate
    /\ should_terminate' = TRUE
    /\ UNCHANGED <<pc, active, activation_threshold, deactivation_threshold,
                   curr_buffer_num, cur_buf, queue,
                   process_completed, completed_queue_padding, n_enqueued,
                   n_processed, peak, suspend_all, in_pause, sts_joined,
                   sts_stopped, n_safepoints, heap_vars, nonchain_vars>>

\* Thresholds a caller may hand to update_thresholds.
ThresholdValues == 0 .. MaxThreshold

\* Mutant of update_thresholds: the thresholds are taken without the
\* precondition.
update_thresholds_NoPrecondition(t, activate_, deactivate_) ==
    /\ n_updates < MaxUpdates
    /\ activation_threshold' = [activation_threshold EXCEPT ![t] = activate_]
    /\ deactivation_threshold' = [deactivation_threshold EXCEPT ![t] = deactivate_]
    /\ n_updates' = n_updates + 1
    /\ UNCHANGED <<pc, active, curr_buffer_num, cur_buf, should_terminate,
                   queue, process_completed, completed_queue_padding,
                   n_enqueued, n_processed, peak, suspend_all, in_pause,
                   sts_joined, sts_stopped, n_safepoints, heap_vars,
                   fwd_vars, oop_vars, hr_vars, hum_vars, ver_vars,
                   late_vars>>

\* update_thresholds(activate, deactivate): assert(deactivate < activate),
\* then both fields are overwritten.
update_thresholds(t, activate_, deactivate_) ==
    /\ n_updates < MaxUpdates
    /\ deactivate_ < activate_
    /\ activation_threshold' = [activation_threshold EXCEPT ![t] = activate_]
    /\ deactivation_threshold' = [deactivation_threshold EXCEPT ![t] = deactivate_]
    /\ n_updates' = n_updates + 1
    /\ UNCHANGED <<pc, active, curr_buffer_num, cur_buf, should_terminate,
                   queue, process_completed, completed_queue_padding,
                   n_enqueued, n_processed, peak, suspend_all, in_pause,
                   sts_joined, sts_stopped, n_safepoints, heap_vars,
                   fwd_vars, oop_vars, hr_vars, hum_vars, ver_vars,
                   late_vars>>

(* ------------------------------------------------------------------ *)
(* Mutators and safepoints                                               *)
(* ------------------------------------------------------------------ *)

\* A mutator hands over a full buffer (its cards are not tracked).
MutatorEnqueue ==
    /\ ~in_pause
    /\ enqueue_complete_buffer(<<>>)
    /\ UNCHANGED <<pc, active, activation_threshold, deactivation_threshold,
                   curr_buffer_num, cur_buf, should_terminate,
                   completed_queue_padding,
                   n_processed, suspend_all, in_pause, sts_joined,
                   sts_stopped, n_safepoints, heap_vars, nonchain_vars>>

\* A mutator stores a reference to region r (0 = NULL) into the field on
\* card c. The write barrier dirties the card of a cross-region store and
\* logs it, unless the card is dirty already; a full buffer is handed over.
MutatorStore(c, r) ==
    /\ ~in_pause
    /\ field' = [field EXCEPT ![c] = r]
    /\ IF r # 0 /\ r # RegionOf(c) /\ ~dirty[c]
       THEN /\ dirty' = [dirty EXCEPT ![c] = TRUE]
            /\ IF Len(mut_buf) + 1 = BufferSize
               THEN /\ enqueue_complete_buffer(Append(mut_buf, c))
                    /\ mut_buf' = <<>>
               ELSE /\ mut_buf' = Append(mut_buf, c)
                    /\ UNCHANGED <<queue, n_enqueued, process_completed, peak>>
       ELSE /\ field[c] # r
            /\ UNCHANGED <<dirty, mut_buf, queue, n_enqueued, process_completed, peak>>
    /\ UNCHANGED <<pc, active, activation_threshold, deactivation_threshold,
                   curr_buffer_num, cur_buf, should_terminate,
                   completed_queue_padding,
                   n_processed, suspend_all, in_pause, sts_joined,
                   sts_stopped, n_safepoints, rem_set, nonchain_vars>>

\* A safepoint is requested: SuspendibleThreadSet::synchronize() raises
\* _suspend_all.
SafepointRequest ==
    /\ ~suspend_all
    /\ n_safepoints < MaxSafepoints
    /\ suspend_all' = TRUE
    /\ n_safepoints' = n_safepoints + 1
    /\ UNCHANGED <<pc, active, activation_threshold, deactivation_threshold,
                   curr_buffer_num, cur_buf, should_terminate, queue,
                   process_completed, completed_queue_padding, n_enqueued,
                   n_processed, peak, in_pause, sts_joined,
                   sts_stopped, heap_vars, nonchain_vars>>

\* synchronize() returns once every joined thread is stopped in yield().
SafepointBegin ==
    /\ suspend_all
    /\ ~in_pause
    /\ sts_joined \subseteq sts_stopped
    /\ in_pause' = TRUE
    /\ UNCHANGED <<pc, active, activation_threshold, deactivation_threshold,
                   curr_buffer_num, cur_buf, should_terminate, queue,
                   process_completed, completed_queue_padding, n_enqueued,
                   n_processed, peak, suspend_all, sts_joined,
                   sts_stopped, n_safepoints, heap_vars, nonchain_vars>>

\* The evacuation pause's own remembered-set update takes a buffer.
PauseUpdateRS ==
    /\ in_pause
    /\ queue # <<>>
    /\ refine_buffer(Head(queue))
    /\ queue' = Tail(queue)
    /\ UNCHANGED <<pc, active, activation_threshold, deactivation_threshold,
                   curr_buffer_num, cur_buf, should_terminate,
                   process_completed, completed_queue_padding, n_enqueued,
                   peak, suspend_all, in_pause, sts_joined,
                   sts_stopped, n_safepoints, field, mut_buf, nonchain_vars>>

\* desynchronize(): the pause is over, the padding of the transition
\* period is set and the stopped threads are released.
SafepointEnd ==
    /\ in_pause
    /\ in_pause' = FALSE
    /\ suspend_all' = FALSE
    /\ completed_queue_padding' = 1
    /\ UNCHANGED <<pc, active, activation_threshold, deactivation_threshold,
                   curr_buffer_num, cur_buf, should_terminate, queue,
                   process_completed, n_enqueued,
                   n_processed, peak, sts_joined,
                   sts_stopped, n_safepoints, heap_vars, nonchain_vars>>

(* ------------------------------------------------------------------ *)
(* Mark word and forwarding                                              *)
(* ------------------------------------------------------------------ *)

NULL == 0

\* Object alignment: MinObjAlignmentInBytes is 1 << LogMinObjAlignmentInBytes.
LogMinObjAlignmentInBytes == 3

MinObjAlignmentInBytes == 2 ^ LogMinObjAlignmentInBytes

check_obj_alignment(obj) == obj % MinObjAlignmentInBytes = 0

\* The two low-order lock bits of a mark word; both set means "marked".
lock_mask == 3

marked_value == 3

lock_bits(m) == m % (lock_mask + 1)

is_marked(m) == lock_bits(m) = marked_value

\* encode_pointer_as_mark: the pointer with the marked bits or-ed in.
encode_pointer_as_mark(p) == (p - lock_bits(p)) + marked_value

\* decode_pointer: the mark with the lock bits cleared.
decode_pointer(m) == m - lock_bits(m)

is_forwarded == is_marked(mark)

forwardee == decode_pointer(mark)

\* Marks an object not yet forwarded can carry when the pause starts:
\* unlocked, biased, stack-locked, inflated, and unlocked with a hash.
UnforwardedMarks == {1, 5, 16, 18, 33}

\* The copy a worker made before the call: a fresh, aligned address.
NewCopy(k) == k * MinObjAlignmentInBytes

\* A worker copied the object and calls forward_to_atomic(p).
ForwardCall(w) ==
    /\ fpc[w] = "idle"
    /\ n_calls < MaxCalls
    /\ n_calls' = n_calls + 1
    /\ fwd_p' = [fwd_p EXCEPT ![w] = NewCopy(n_calls + 1)]
    /\ fpc' = [fpc EXCEPT ![w] = "read"]
    /\ UNCHANGED <<mark, oldMark, calls, nonfwd_vars>>

\* markOop oldMark = mark(); then the loop test on it.
ForwardReadMark(w) ==
    /\ fpc[w] = "read"
    /\ oldMark' = [oldMark EXCEPT ![w] = mark]
    /\ fpc' = [fpc EXCEPT ![w] = IF is_marked(mark) THEN "forwardee" ELSE "cas"]
    /\ UNCHANGED <<mark, fwd_p, calls, n_calls, nonfwd_vars>>

\* Mutant of ForwardCas: the forwarding mark is stored without comparing.
ForwardCas_PlainStore(w) ==
    /\ fpc[w] = "cas"
    /\ mark' = encode_pointer_as_mark(fwd_p[w])
    /\ calls' = calls \cup {[worker |-> w, p |-> fwd_p[w], result |-> NULL]}
    /\ fpc' = [fpc EXCEPT ![w] = "idle"]
    /\ UNCHANGED <<oldMark, fwd_p, n_calls, nonfwd_vars>>

\* Mutant of ForwardCas: after a failed exchange the loop goes round again
\* whether or not the mark read back is marked.
ForwardCas_RetryMarked(w) ==
    /\ fpc[w] = "cas"
    /\ IF mark = oldMark[w]
       THEN /\ mark' = encode_pointer_as_mark(fwd_p[w])
            /\ calls' = calls \cup {[worker |-> w, p |-> fwd_p[w], result |-> NULL]}
            /\ fpc' = [fpc EXCEPT ![w] = "idle"]
            /\ UNCHANGED oldMark
       ELSE /\ oldMark' = [oldMark EXCEPT ![w] = mark]
            /\ fpc' = [fpc EXCEPT ![w] = "cas"]
            /\ UNCHANGED <<mark, calls>>
    /\ UNCHANGED <<fwd_p, n_calls, nonfwd_vars>>

\* Mutant of ForwardCas: the exchange installs the address of the copy as
\* it is, not its encoding as a mark.
ForwardCas_RawPointer(w) ==
    /\ fpc[w] = "cas"
    /\ IF mark = oldMark[w]
       THEN /\ mark' = fwd_p[w]
            /\ calls' = calls \cup {[worker |-> w, p |-> fwd_p[w], result |-> NULL]}
            /\ fpc' = [fpc EXCEPT ![w] = "idle"]
            /\ UNCHANGED oldMark
       ELSE /\ oldMark' = [oldMark EXCEPT ![w] = mark]
            /\ fpc' = [fpc EXCEPT ![w] = IF is_marked(mark) THEN "lost" ELSE "cas"]
            /\ UNCHANGED <<mark, calls>>
    /\ UNCHANGED <<fwd_p, n_calls, nonfwd_vars>>

\* curMark = cmpxchg_ptr(forwardPtrMark, &_mark, oldMark): on success the
\* call returns NULL; otherwise oldMark = curMark and the loop test again.
\* A call that leaves the loop after a failed exchange is at "lost", one
\* that never entered it at "forwardee"; both go on to return forwardee().
ForwardCas(w) ==
    /\ fpc[w] = "cas"
    /\ IF mark = oldMark[w]
       THEN /\ mark' = encode_pointer_as_mark(fwd_p[w])
            /\ calls' = calls \cup {[worker |-> w, p |-> fwd_p[w], result |-> NULL]}
            /\ fpc' = [fpc EXCEPT ![w] = "idle"]
            /\ UNCHANGED oldMark
       ELSE /\ oldMark' = [oldMark EXCEPT ![w] = mark]
            /\ fpc' = [fpc EXCEPT ![w] = IF is_marked(mark) THEN "lost" ELSE "cas"]
            /\ UNCHANGED <<mark, calls>>
    /\ UNCHANGED <<fwd_p, n_calls, nonfwd_vars>>

\* return forwardee();
ForwardReturnForwardee(w) ==
    /\ fpc[w] \in {"forwardee", "lost"}
    /\ calls' = calls \cup {[worker |-> w, p |-> fwd_p[w], result |-> forwardee]}
    /\ fpc' = [fpc EXCEPT ![w] = "idle"]
    /\ UNCHANGED <<mark, fwd_p, oldMark, n_calls, nonfwd_vars>>

FwdIdle ==
    /\ mark = 1
    /\ fpc = [w \in Workers |-> "idle"]
    /\ fwd_p = [w \in Workers |-> NULL]
    /\ oldMark = [w \in Workers |-> 0]
    /\ calls = {}
    /\ n_calls = 0

FwdInit ==
    /\ mark \in UnforwardedMarks
    /\ fpc = [w \in Workers |-> "idle"]
    /\ fwd_p = [w \in Workers |-> NULL]
    /\ oldMark = [w \in Workers |-> 0]
    /\ calls = {}
    /\ n_calls = 0

(* ------------------------------------------------------------------ *)
(* Compressed oops                                                       *)
(* ------------------------------------------------------------------ *)

AddressSpace == 2 ^ AddressBits

NarrowSpace == 2 ^ NarrowOopBits

\* Offsets a narrowOop can express under a shift.
OopEncodingHeapMax(shift) == NarrowSpace * (2 ^ shift)

\* Mutant of decode_heap_oop_not_null: the narrowOop is added unshifted.
decode_heap_oop_not_null_NoShift(v) ==
    (narrow_oop_base + v) % AddressSpace

decode_heap_oop_not_null(v) ==
    (narrow_oop_base + v * (2 ^ narrow_oop_shift)) % AddressSpace

decode_heap_oop(v) == IF is_null(v) THEN NULL ELSE decode_heap_oop_not_null(v)

\* pointer_delta(v, base, 1), shifted right and cut to a narrowOop.
encode_heap_oop_not_null(v) ==
    LET pd == (v - narrow_oop_base) % AddressSpace
    IN (pd \div (2 ^ narrow_oop_shift)) % NarrowSpace

encode_heap_oop(v) == IF is_null(v) THEN 0 ELSE encode_heap_oop_not_null(v)

\* The reserved heap of a configuration: it starts one alignment unit above
\* the base (address 0, or the protected page below a based heap) and ends
\* where the encoding ends.
heap_start == narrow_oop_base + MinObjAlignmentInBytes

heap_end == narrow_oop_base + OopEncodingHeapMax(narrow_oop_shift)

is_in_reserved(a) == heap_start <= a /\ a < heap_end

\* The object addresses of the reserved heap.
HeapOops == {a \in 0 .. (AddressSpace - 1) : is_in_reserved(a) /\ check_obj_alignment(a)}

\* The narrowOops that decode to an object address of the reserved heap.
ValidNarrowOops ==
    {v \in 1 .. (NarrowSpace - 1) : decode_heap_oop_not_null(v) \in HeapOops}

\* Encoding modes: unscaled and zero-based (base 0), and heap-based with a
\* shift, for every aligned base that leaves room for the heap.
OopConfigs ==
    {cfg \in [base : 0 .. (AddressSpace - 1), shift : {0, LogMinObjAlignmentInBytes}] :
        /\ check_obj_alignment(cfg.base)
        /\ (cfg.shift = 0 => cfg.base = 0)
        /\ cfg.base + OopEncodingHeapMax(cfg.shift) <= AddressSpace}

\* A round trip starts from an oop (step 0, then encode, then decode) ...
OopInitWide ==
    /\ oop_orig \in HeapOops \cup {NULL}
    /\ oop_wide = oop_orig
    /\ oop_narrow = 0
    /\ oop_step = 0

\* ... or from a narrowOop (step 10, then decode, then encode).
OopInitNarrow ==
    /\ oop_orig \in ValidNarrowOops \cup {0}
    /\ oop_narrow = oop_orig
    /\ oop_wide = NULL
    /\ oop_step = 10

OopInit ==
    /\ \E cfg \in OopConfigs :
          narrow_oop_base = cfg.base /\ narrow_oop_shift = cfg.shift
    /\ (OopInitWide \/ OopInitNarrow)

OopIdle ==
    /\ narrow_oop_base = 0
    /\ narrow_oop_shift = 0
    /\ oop_orig = NULL
    /\ oop_wide = NULL
    /\ oop_narrow = 0
    /\ oop_step = 0

\* narrowOop n = encode_heap_oop(v)
EncodeHeapOop ==
    /\ oop_step \in {0, 11}
    /\ oop_narrow' = encode_heap_oop(oop_wide)
    /\ oop_step' = oop_step + 1
    /\ UNCHANGED <<narrow_oop_base, narrow_oop_shift, oop_orig, oop_wide, nonoop_vars>>

\* oop v = decode_heap_oop(n)
DecodeHeapOop ==
    /\ oop_step \in {1, 10}
    /\ oop_wide' = decode_heap_oop(oop_narrow)
    /\ oop_step' = oop_step + 1
    /\ UNCHANGED <<narrow_oop_base, narrow_oop_shift, oop_orig, oop_narrow, nonoop_vars>>

(* ------------------------------------------------------------------ *)
(* HeapRegion                                                            *)
(* ------------------------------------------------------------------ *)

HRegions == 1 .. NHRegions

HRTypes == {"Free", "Eden", "Survivor", "Old", "Archive",
            "StartsHumongous", "ContinuesHumongous"}

\* Address bounds of region r: the heap is the regions laid end to end.
bottom(r) == (r - 1) * GrainWords

end(r) == r * GrainWords

used(r, h) == h.top - bottom(r)

is_free(h) == h.type = "Free"

is_starts_humongous(h) == h.type = "StartsHumongous"

is_continues_humongous(h) == h.type = "ContinuesHumongous"

is_humongous(h) == is_starts_humongous(h) \/ is_continues_humongous(h)

\* HeapRegionType: a tag other than Free is only set on a Free region
\* (set_from(tag, FreeTag)); Free is set from any tag.
hrt_set_allowed(h, tag) == tag = "Free" \/ h.type = "Free"

\* Mutant of set_type_allowed: the tag is written without asking the
\* region type.
set_type_allowed_Unchecked(h, tag) == TRUE

\* set_free, set_eden, set_survivor, set_old, set_archive: report the type
\* change, then _type.set_<tag>().
set_type_allowed(h, tag) == hrt_set_allowed(h, tag)

set_type(h, tag) == [h EXCEPT !.type = tag]

\* set_starts_humongous: assert(!is_humongous()), assert(top() == bottom()).
set_starts_humongous_allowed(r, h) ==
    /\ ~is_humongous(h)
    /\ h.top = bottom(r)
    /\ hrt_set_allowed(h, "StartsHumongous")

\* set_starts_humongous(obj_top, fill_size): the type, then
\* _humongous_start_region = this.
set_starts_humongous(r, h) ==
    [h EXCEPT !.type = "StartsHumongous", !.humongous_start_region = r]

\* set_continues_humongous: the asserts of set_starts_humongous and
\* assert(first_hr->is_starts_humongous()).
set_continues_humongous_allowed(r, h, first_hr) ==
    /\ ~is_humongous(h)
    /\ h.top = bottom(r)
    /\ is_starts_humongous(hr[first_hr])
    /\ hrt_set_allowed(h, "ContinuesHumongous")

\* Mutant of set_continues_humongous: the region records itself as the
\* start region.
set_continues_humongous_Self(r, h, first_hr) ==
    [h EXCEPT !.type = "ContinuesHumongous", !.humongous_start_region = r]

\* set_continues_humongous(first_hr): the type, then
\* _humongous_start_region = first_hr.
set_continues_humongous(r, h, first_hr) ==
    [h EXCEPT !.type = "ContinuesHumongous", !.humongous_start_region = first_hr]

\* clear_humongous: assert(is_humongous()); the capacity of a region is
\* GrainBytes throughout.
clear_humongous_allowed(h) == is_humongous(h)

clear_humongous(h) == [h EXCEPT !.humongous_start_region = NULL]

\* Mutant of G1ContiguousSpace_clear: top is left where it was.
G1ContiguousSpace_clear_KeepsTop(r, h) == h

\* G1ContiguousSpace::clear: set_top(bottom()).
G1ContiguousSpace_clear(r, h) == [h EXCEPT !.top = bottom(r)]

zero_marked_bytes(h) ==
    [h EXCEPT !.prev_marked_bytes = 0, !.next_marked_bytes = 0]

\* HeapRegionRemSet::clear and clear_locked.
rem_set_clear(h) == [h EXCEPT !.rem_set = {}]

\* Mutant of hr_clear_allowed: the region's humongous back-reference is not
\* looked at.
hr_clear_allowed_NoHumongousCheck(h) == ~h.in_collection_set

\* hr_clear: assert(_humongous_start_region == NULL),
\* assert(!in_collection_set()).
hr_clear_allowed(h) ==
    /\ h.humongous_start_region = NULL
    /\ ~h.in_collection_set

\* Mutant of hr_clear: the remembered set is cleared when it was to be kept.
hr_clear_KeepInverted(r, h, keep_remset, clear_space, locked) ==
    LET h1 == set_type(h, "Free")
        h2 == IF keep_remset THEN rem_set_clear(h1) ELSE h1
        h3 == zero_marked_bytes(h2)
    IN  IF clear_space THEN G1ContiguousSpace_clear(r, h3) ELSE h3

\* Mutant of hr_clear: the marking counters of the two epochs are swapped
\* instead of zeroed.
hr_clear_SwapsMarked(r, h, keep_remset, clear_space, locked) ==
    LET h1 == set_type(h, "Free")
        h2 == IF ~keep_remset THEN rem_set_clear(h1) ELSE h1
        h3 == [h2 EXCEPT !.prev_marked_bytes = h2.next_marked_bytes,
                         !.next_marked_bytes = h2.prev_marked_bytes]
    IN  IF clear_space THEN G1ContiguousSpace_clear(r, h3) ELSE h3

\* hr_clear(keep_remset, clear_space, locked): set_free(); the remembered
\* set is cleared (clear_locked or clear) unless kept; zero_marked_bytes();
\* if (clear_space) clear(SpaceDecorator::Mangle).
hr_clear(r, h, keep_remset, clear_space, locked) ==
    LET h1 == set_type(h, "Free")
        h2 == IF ~keep_remset
              THEN (IF locked THEN rem_set_clear(h1) ELSE rem_set_clear(h1))
              ELSE h1
        h3 == zero_marked_bytes(h2)
    IN  IF clear_space THEN G1ContiguousSpace_clear(r, h3) ELSE h3

\* initialize: assert(_rem_set->is_empty()), and the asserts of hr_clear.
initialize_allowed(h) == h.rem_set = {} /\ hr_clear_allowed(h)

\* initialize(mr): hr_clear(false, false), then set_top(bottom()).
initialize(r, h) ==
    [hr_clear(r, h, FALSE, FALSE, FALSE) EXCEPT !.top = bottom(r)]

\* note_self_forwarding_removal_end: assert(marked_bytes <= used()).
note_self_forwarding_removal_end_allowed(r, h, marked_bytes) ==
    marked_bytes <= used(r, h)

note_self_forwarding_removal_end(r, h, marked_bytes) ==
    [h EXCEPT !.prev_marked_bytes = marked_bytes]

\* Bump-pointer allocation of one word in a region that is in use.
allocate_possible(r, h) == ~is_free(h) /\ h.top + 1 <= end(r)

allocate(r, h) == [h EXCEPT !.top = h.top + 1]

\* A reference from region from_ is recorded in the remembered set.
add_reference(h, from_) == [h EXCEPT !.rem_set = h.rem_set \cup {from_}]

\* The collector puts a region that is in use into the collection set and
\* takes it out again.
set_in_collection_set(h, b) == [h EXCEPT !.in_collection_set = b]

NoCall == [op |-> "none", r |-> 0, flags |-> <<>>]

Call(op, r, flags) == [op |-> op, r |-> r, flags |-> flags]

\* A call on region call.r: either its assertions hold and it takes effect,
\* or one fails and the VM stops with the region as it was.
HRCall(call, allowed, h) ==
    /\ ~hr_failed
    /\ hr_calls < MaxHRCalls
    /\ hr_calls' = hr_calls + 1
    /\ hr_last' = call
    /\ hr_repeat' = (call = hr_last)
    /\ hr_failed' = ~allowed
    /\ hr' = IF allowed THEN [hr EXCEPT ![call.r] = h] ELSE hr
    /\ UNCHANGED <<chain_vars, heap_vars, fwd_vars, oop_vars, thr_vars, hum_vars,
                   ver_vars, late_vars>>

\* A step of the allocator, the collector or refinement on region call.r
\* that is not a HeapRegion call.
HRStep(call, possible, h) ==
    /\ ~hr_failed
    /\ hr_calls < MaxHRCalls
    /\ hr_calls' = hr_calls + 1
    /\ possible
    /\ hr_last' = NoCall
    /\ hr_repeat' = FALSE
    /\ hr' = [hr EXCEPT ![call.r] = h]
    /\ UNCHANGED <<hr_failed, chain_vars, heap_vars, fwd_vars, oop_vars, thr_vars,
                   hum_vars, ver_vars, late_vars>>

HRSetFree(r) ==
    HRCall(Call("set_free", r, <<>>), set_type_allowed(hr[r], "Free"),
           set_type(hr[r], "Free"))

HRSetType(r, tag) ==
    HRCall(Call("set_type", r, <<tag>>), set_type_allowed(hr[r], tag),
           set_type(hr[r], tag))

HRSetStartsHumongous(r) ==
    HRCall(Call("set_starts_humongous", r, <<>>),
           set_starts_humongous_allowed(r, hr[r]),
           set_starts_humongous(r, hr[r]))

HRSetContinuesHumongous(r, first_hr) ==
    HRCall(Call("set_continues_humongous", r, <<first_hr>>),
           set_continues_humongous_allowed(r, hr[r], first_hr),
           set_continues_humongous(r, hr[r], first_hr))

HRClearHumongous(r) ==
    HRCall(Call("clear_humongous", r, <<>>), clear_humongous_allowed(hr[r]),
           clear_humongous(hr[r]))

HRClear(r, keep_remset, clear_space, locked) ==
    HRCall(Call("hr_clear", r, <<keep_remset, clear_space, locked>>),
           hr_clear_allowed(hr[r]),
           hr_clear(r, hr[r], keep_remset, clear_space, locked))

HRInitialize(r) ==
    HRCall(Call("initialize", r, <<>>), initialize_allowed(hr[r]),
           initialize(r, hr[r]))

HRNoteMarked(r, marked_bytes) ==
    HRCall(Call("note_self_forwarding_removal_end", r, <<marked_bytes>>),
           note_self_forwarding_removal_end_allowed(r, hr[r], marked_bytes),
           note_self_forwarding_removal_end(r, hr[r], marked_bytes))

HRAllocate(r) ==
    HRStep(Call("allocate", r, <<>>), allocate_possible(r, hr[r]),
           allocate(r, hr[r]))

HRAddReference(r, from_) ==
    HRStep(Call("add_reference", r, <<from_>>),
           /\ from_ # r
           /\ ~is_free(hr[r])
           /\ ~is_free(hr[from_])
           /\ from_ \notin hr[r].rem_set,
           add_reference(hr[r], from_))

HRSetInCSet(r, b) ==
    HRStep(Call("set_in_collection_set", r, <<b>>),
           /\ hr[r].in_collection_set # b
           /\ b => ~is_free(hr[r]) /\ ~is_humongous(hr[r]),
           set_in_collection_set(hr[r], b))

\* State after the HeapRegion constructors: initialize() has run on every
\* region.
HRInit ==
    /\ hr = [r \in HRegions |->
               [type |-> "Free", top |-> bottom(r),
                humongous_start_region |-> NULL, in_collection_set |-> FALSE,
                rem_set |-> {}, prev_marked_bytes |-> 0,
                next_marked_bytes |-> 0]]
    /\ hr_last = NoCall
    /\ hr_repeat = FALSE
    /\ hr_failed = FALSE
    /\ hr_calls = 0

(* ------------------------------------------------------------------ *)
(* Card scan of a humongous region against its allocation                *)
(* ------------------------------------------------------------------ *)

HFields == 1 .. NHFields

\* The klass the allocator installs.
TheKlass == 1

\* The klass word of the object, among its fields 1 .. NHFields.
klass_word == 0

\* What the parts of this section leave alone.
nonhum_vars == <<chain_vars, heap_vars, fwd_vars, oop_vars, thr_vars, hr_vars,
                 ver_vars, late_vars>>

Store(loc, release) == [loc |-> loc, release |-> release]

\* release_set_klass(k): OrderAccess::release_store of the klass word.
release_set_klass(k) == Store(klass_word, TRUE)

\* klass_or_null_acquire(): load_acquire of the klass word; what the thread
\* reads after it is no older than what it read here.
klass_or_null_acquire == h_klass

\* The regions of the humongous object are set up with the object's header
\* zeroed: the klass reads NULL and no field has its initial value.
HumAllocate ==
    /\ h_pc = "idle"
    /\ ~gc_active
    /\ h_pc' = "fields"
    /\ UNCHANGED <<h_sb, h_klass, h_init, gc_active, s_pc, s_scan, scans,
                   n_scans, nonhum_vars>>

\* The allocating thread initializes the next field of the object.
HumInitField ==
    /\ h_pc = "fields"
    /\ \E i \in HFields :
          /\ i \notin h_init
          /\ \A j \in 1 .. Len(h_sb) : h_sb[j].loc # i
          /\ \A k \in 1 .. (i - 1) :
                k \in h_init \/ \E j \in 1 .. Len(h_sb) : h_sb[j].loc = k
          /\ h_sb' = Append(h_sb, Store(i, FALSE))
    /\ UNCHANGED <<h_pc, h_klass, h_init, gc_active, s_pc, s_scan, scans,
                   n_scans, nonhum_vars>>

\* With every field initialized, the allocating thread publishes the
\* object by setting its klass.
HumPublish ==
    /\ h_pc = "fields"
    /\ \A i \in HFields :
          i \in h_init \/ \E j \in 1 .. Len(h_sb) : h_sb[j].loc = i
    /\ h_sb' = Append(h_sb, release_set_klass(TheKlass))
    /\ h_pc' = "published"
    /\ UNCHANGED <<h_klass, h_init, gc_active, s_pc, s_scan, scans, n_scans,
                   nonhum_vars>>

\* A store of the allocating thread becomes visible to the other threads:
\* plain stores in any order, a release store after every store before it.
HumStoreVisible(j) ==
    /\ j \in 1 .. Len(h_sb)
    /\ h_sb[j].release => j = 1
    /\ h_sb' = [k \in 1 .. (Len(h_sb) - 1) |-> IF k < j THEN h_sb[k] ELSE h_sb[k + 1]]
    /\ IF h_sb[j].loc = klass_word
       THEN h_klass' = TheKlass /\ UNCHANGED h_init
       ELSE h_init' = h_init \cup {h_sb[j].loc} /\ UNCHANGED h_klass
    /\ UNCHANGED <<h_pc, gc_active, s_pc, s_scan, scans, n_scans, nonhum_vars>>

\* A collection pause begins, with no allocation under way and every store
\* visible, and ends. The pause scans cards as well.
HumGCBegin ==
    /\ ~gc_active
    /\ h_pc \in {"idle", "published"}
    /\ h_sb = <<>>
    /\ s_pc = "idle"
    /\ gc_active' = TRUE
    /\ UNCHANGED <<h_pc, h_sb, h_klass, h_init, s_pc, s_scan, scans, n_scans,
                   nonhum_vars>>

HumGCEnd ==
    /\ gc_active
    /\ s_pc = "idle"
    /\ gc_active' = FALSE
    /\ UNCHANGED <<h_pc, h_sb, h_klass, h_init, s_pc, s_scan, scans, n_scans,
                   nonhum_vars>>

NoScan == [mr |-> {}, klass |-> NULL, gc |-> FALSE, is_objArray |-> FALSE,
           todo |-> {}, visited |-> {}, unset |-> {}, result |-> "none",
           dead |-> FALSE, queried |-> FALSE]

\* Cards of the humongous object: the fields a card covers.
HumCards == {{i} : i \in HFields} \cup {HFields}

\* oops_on_card_seq_iterate_careful(mr, cl) on the humongous region
\* (is_humongous() holds from HumAllocate on): do_oops_on_card_in_humongous
\* reads is_gc_active() and the klass of the object at sr->bottom().
ScanBegin(mr, is_objArray) ==
    /\ s_pc = "idle"
    /\ h_pc # "idle"
    /\ n_scans < MaxScans
    /\ n_scans' = n_scans + 1
    /\ s_scan' = [NoScan EXCEPT !.mr = mr, !.is_objArray = is_objArray,
                                !.gc = gc_active,
                                !.klass = klass_or_null_acquire]
    /\ s_pc' = "check"
    /\ UNCHANGED <<h_pc, h_sb, h_klass, h_init, gc_active, scans, nonhum_vars>>

\* Mutant of ScanCheck: the klass read is not looked at.
ScanCheck_NoKlassCheck(obj_dead) ==
    /\ s_pc = "check"
    /\ IF obj_dead
       THEN /\ s_scan' = [s_scan EXCEPT !.result = "true", !.dead = TRUE,
                                        !.queried = TRUE]
            /\ s_pc' = "return"
       ELSE /\ s_scan' = [s_scan EXCEPT !.queried = TRUE, !.todo =
                            IF s_scan.is_objArray \/ 1 \notin s_scan.mr
                            THEN s_scan.mr ELSE HFields]
            /\ s_pc' = "iterate"
    /\ UNCHANGED <<h_pc, h_sb, h_klass, h_init, gc_active, scans, n_scans,
                   nonhum_vars>>

\* Mutant of ScanCheck: a live object is always iterated in full.
ScanCheck_AlwaysFull(obj_dead) ==
    /\ s_pc = "check"
    /\ IF ~s_scan.gc /\ s_scan.klass = NULL
       THEN /\ s_scan' = [s_scan EXCEPT !.result = "false", !.dead = obj_dead]
            /\ s_pc' = "return"
       ELSE IF obj_dead
       THEN /\ s_scan' = [s_scan EXCEPT !.result = "true", !.dead = TRUE,
                                        !.queried = TRUE]
            /\ s_pc' = "return"
       ELSE /\ s_scan' = [s_scan EXCEPT !.queried = TRUE, !.todo = HFields]
            /\ s_pc' = "iterate"
    /\ UNCHANGED <<h_pc, h_sb, h_klass, h_init, gc_active, scans, n_scans,
                   nonhum_vars>>

\* if (!is_gc_active() && klass_or_null_acquire() == NULL) return false;
\* if (!is_obj_dead(obj, sr)) the object is iterated: bounded by mr for an
\* objArray or a card past the object's start, in full otherwise. obj_dead
\* is what is_obj_dead(obj, sr) answers for the object at sr->bottom();
\* queried records that it was asked.
ScanCheck(obj_dead) ==
    /\ s_pc = "check"
    /\ IF ~s_scan.gc /\ s_scan.klass = NULL
       THEN /\ s_scan' = [s_scan EXCEPT !.result = "false", !.dead = obj_dead]
            /\ s_pc' = "return"
       ELSE IF obj_dead
       THEN /\ s_scan' = [s_scan EXCEPT !.result = "true", !.dead = TRUE,
                                        !.queried = TRUE]
            /\ s_pc' = "return"
       ELSE /\ s_scan' = [s_scan EXCEPT !.queried = TRUE, !.todo =
                            IF s_scan.is_objArray \/ 1 \notin s_scan.mr
                            THEN s_scan.mr ELSE HFields]
            /\ s_pc' = "iterate"
    /\ UNCHANGED <<h_pc, h_sb, h_klass, h_init, gc_active, scans, n_scans,
                   nonhum_vars>>

\* obj->oop_iterate(cl[, mr]): the closure is applied to the next field;
\* a field whose initial value is not visible yet is read as it was left
\* by the previous use of the memory.
ScanVisit ==
    /\ s_pc = "iterate"
    /\ IF s_scan.todo = {}
       THEN /\ s_scan' = [s_scan EXCEPT !.result = "true"]
            /\ s_pc' = "return"
       ELSE LET i == CHOOSE f \in s_scan.todo : \A g \in s_scan.todo : f <= g
            IN  /\ s_scan' = [s_scan EXCEPT
                                !.todo = s_scan.todo \ {i},
                                !.visited = s_scan.visited \cup {i},
                                !.unset = IF i \in h_init THEN s_scan.unset
                                          ELSE s_scan.unset \cup {i}]
                /\ s_pc' = "iterate"
    /\ UNCHANGED <<h_pc, h_sb, h_klass, h_init, gc_active, scans, n_scans,
                   nonhum_vars>>

\* The scan returns to its caller.
ScanReturn ==
    /\ s_pc = "return"
    /\ scans' = scans \cup {s_scan}
    /\ s_scan' = NoScan
    /\ s_pc' = "idle"
    /\ UNCHANGED <<h_pc, h_sb, h_klass, h_init, gc_active, n_scans, nonhum_vars>>

\* No humongous object is being allocated and no card is being scanned.
HumInit ==
    /\ h_pc = "idle"
    /\ h_sb = <<>>
    /\ h_klass = NULL
    /\ h_init = {}
    /\ gc_active = FALSE
    /\ s_pc = "idle"
    /\ s_scan = NoScan
    /\ scans = {}
    /\ n_scans = 0

(* ------------------------------------------------------------------ *)
(* Remembered set verification of a region                               *)
(* ------------------------------------------------------------------ *)

VObjects == 1 .. NVObjects

\* Where the reference field of an object points: nowhere, into the region
\* being verified, into another region, into another region that is pinned.
VTargets == {"null", "same", "other", "pinned"}

\* Values of the flag G1MaxVerifyFailures: no limit when negative.
G1MaxVerifyFailuresValues == {-1, 0, 1}

\* An object of the region: dead or live under the verify option, an
\* objArray or not, its field, whether the target's remembered set contains
\* the field, and whether the cards of its head and of the field are dirty.
VObjectStates ==
    {o \in [dead : BOOLEAN, is_objArray : BOOLEAN, field : VTargets,
            in_rem_set : BOOLEAN, cv_obj_dirty : BOOLEAN,
            cv_field_dirty : BOOLEAN] :
        o.in_rem_set => o.field \in {"other", "pinned"}}

\* Mutant of verify_remembered_set: a dirty head card excuses the field of
\* an objArray as well.
verify_remembered_set_AnyDirtyCard(o, from_young) ==
    /\ o.field # "null"
    /\ o.field # "same"
    /\ o.field # "pinned"
    /\ ~(\/ from_young
         \/ o.in_rem_set
         \/ (/\ ~G1HRRSFlushLogBuffersOnVerify
             /\ (o.cv_obj_dirty \/ o.cv_field_dirty)))

\* VerifyRemSetClosure::verify_remembered_set(p) on the field of object o:
\* TRUE when the field is reported as missing from the remembered set.
verify_remembered_set(o, from_young) ==
    /\ o.field # "null"
    /\ o.field # "same"
    /\ o.field # "pinned"
    /\ ~(\/ from_young
         \/ o.in_rem_set
         \/ (/\ ~G1HRRSFlushLogBuffersOnVerify
             /\ (IF o.is_objArray
                 THEN o.cv_field_dirty
                 ELSE o.cv_obj_dirty \/ o.cv_field_dirty)))

RECURSIVE verify_rem_set_from(_, _, _, _, _)
\* The loop of HeapRegion::verify_rem_set from object p on, with the
\* closure's _n_failures so far: dead objects are stepped over, the closure
\* is applied to the field of a live one, and the walk stops once
\* G1MaxVerifyFailures failures are reached.
verify_rem_set_from(p, objs, from_young, G1MaxVerifyFailures, n_failures) ==
    IF p > NVObjects THEN n_failures
    ELSE IF objs[p].dead
    THEN verify_rem_set_from(p + 1, objs, from_young, G1MaxVerifyFailures,
                             n_failures)
    ELSE LET n == IF verify_remembered_set(objs[p], from_young)
                  THEN n_failures + 1 ELSE n_failures
         IN  IF G1MaxVerifyFailures >= 0 /\ n >= G1MaxVerifyFailures
             THEN n
             ELSE verify_rem_set_from(p + 1, objs, from_young,
                                      G1MaxVerifyFailures, n)

NoResult == [done |-> FALSE, failures |-> FALSE, n_failures |-> 0]

\* HeapRegion::verify_rem_set(vo, failures): *failures is set when the
\* closure has failures; nothing else is written.
HeapRegionVerifyRemSet ==
    /\ ~v_result.done
    /\ LET n == verify_rem_set_from(1, v_obj, v_from_young, v_max_failures, 0)
       IN  v_result' = [done |-> TRUE, failures |-> n > 0, n_failures |-> n]
    /\ UNCHANGED <<v_from_young, v_max_failures, v_obj, v_before, chain_vars,
                   heap_vars, fwd_vars, oop_vars, thr_vars, hr_vars, hum_vars,
                   late_vars>>

\* No region is being verified: an old region of dead objects.
VerIdle ==
    /\ v_from_young = FALSE
    /\ v_max_failures = -1
    /\ v_obj = [p \in VObjects |->
                  [dead |-> TRUE, is_objArray |-> FALSE, field |-> "null",
                   in_rem_set |-> FALSE, cv_obj_dirty |-> FALSE,
                   cv_field_dirty |-> FALSE]]
    /\ v_before = v_obj
    /\ v_result = NoResult

\* A region about to be verified, in any state of its objects, cards and
\* remembered set entries.
VerInit ==
    /\ v_from_young \in BOOLEAN
    /\ v_max_failures \in G1MaxVerifyFailuresValues
    /\ v_obj \in [VObjects -> VObjectStates]
    /\ v_before = v_obj
    /\ v_result = NoResult

(* ------------------------------------------------------------------ *)
(* G1EvacStats: adaptive PLAB sizing                                     *)
(* ------------------------------------------------------------------ *)

\* What the steps of this section leave alone.
nonplab_vars == <<chain_vars, heap_vars, fwd_vars, oop_vars, thr_vars, hr_vars,
                  hum_vars, ver_vars, hash_vars, iter_vars, mon_vars,
                  new_vars>>

\* size_t arithmetic.
SizeT(x) == x % (2 ^ SizeTBits)

\* The flags TargetPLABWastePct and G1LastPLABAverageOccupancy, in percent.
TargetPLABWastePct == 10

G1LastPLABAverageOccupancy == 50

\* The weight wt handed to the constructor, in percent.
PLABWeight == 50

\* Units of the filter's floating-point average per word.
FilterScale == 100

\* PLAB::min_size() and PLAB::max_size(), in words.
min_size == 8

max_size == 24

is_object_aligned(sz) == sz % MinObjAlignmentInBytes = 0

MAX2(a, b) == IF a > b THEN a ELSE b

\* The accumulators all zero.
ZeroStats ==
    [allocated |-> 0, wasted |-> 0, unused |-> 0, region_end_waste |-> 0,
     regions_filled |-> 0, direct_allocated |-> 0, failure_used |-> 0,
     failure_waste |-> 0]

\* What a collection can leave in the accumulators: what was wasted or left
\* unused was allocated first; region end waste may exceed the allocation.
CollectionStats ==
    {st \in [allocated : {0, 40, 100, 200, 500}, wasted : {0, 1}, unused : {0, 1},
             region_end_waste : {0, 50}, regions_filled : {0, 1},
             direct_allocated : {0}, failure_used : {0, 1}, failure_waste : {0}] :
        /\ st.wasted + st.unused <= st.allocated
        /\ st.failure_used = st.regions_filled}

\* G1EvacStats::reset(): every accumulator back to zero.
reset == ZeroStats

\* PLABStats::used(): what was allocated through the buffers.
PLABStats_used(st) == st.allocated

\* AdaptiveWeightedAverage::sample: the exponentially decaying average of
\* the samples, the new one weighing PLABWeight percent.
filter_sample(avg, new_sample) ==
    ((100 - PLABWeight) * avg + PLABWeight * new_sample * FilterScale) \div 100

\* (size_t)_filter.average()
filter_average(avg) == avg \div FilterScale

\* Mutant of cur_plab_sz: region end waste is not taken off what was used.
cur_plab_sz_IgnoresEndWaste(st) ==
    LET allocated_ == IF st.allocated = 0 THEN 1 ELSE st.allocated
        used_ == PLABStats_used([st EXCEPT !.allocated = allocated_])
        total_waste_allowed == SizeT(used_ * TargetPLABWastePct)
    IN  total_waste_allowed \div G1LastPLABAverageOccupancy

\* Mutant of cur_plab_sz: region end waste is subtracted without the guard.
cur_plab_sz_Unguarded(st) ==
    LET allocated_ == IF st.allocated = 0 THEN 1 ELSE st.allocated
        used_ == PLABStats_used([st EXCEPT !.allocated = allocated_])
        used_for_waste_calculation == SizeT(used_ - st.region_end_waste)
        total_waste_allowed == SizeT(used_for_waste_calculation * TargetPLABWastePct)
    IN  total_waste_allowed \div G1LastPLABAverageOccupancy

\* The PLAB size that meets TargetPLABWastePct for the usage of this
\* collection, the last buffer being G1LastPLABAverageOccupancy full.
cur_plab_sz(st) ==
    LET allocated_ == IF st.allocated = 0 THEN 1 ELSE st.allocated
        used_ == PLABStats_used([st EXCEPT !.allocated = allocated_])
        used_for_waste_calculation ==
            IF used_ > st.region_end_waste
            THEN SizeT(used_ - st.region_end_waste) ELSE 0
        total_waste_allowed == SizeT(used_for_waste_calculation * TargetPLABWastePct)
    IN  total_waste_allowed \div G1LastPLABAverageOccupancy

\* Mutant of adjust_desired_plab_sz: the average is taken without min_size().
adjust_desired_plab_sz_NoMin(st, desired, avg, resize) ==
    IF ~resize
    THEN [stats |-> reset, desired |-> desired, filter |-> avg]
    ELSE LET avg_ == filter_sample(avg, cur_plab_sz(st))
         IN  [stats |-> reset, desired |-> filter_average(avg_), filter |-> avg_]

\* Mutant of adjust_desired_plab_sz: the disabled path returns at once.
adjust_desired_plab_sz_NoReset(st, desired, avg, resize) ==
    IF ~resize
    THEN [stats |-> st, desired |-> desired, filter |-> avg]
    ELSE LET avg_ == filter_sample(avg, cur_plab_sz(st))
         IN  [stats |-> reset, desired |-> MAX2(min_size, filter_average(avg_)),
              filter |-> avg_]

\* Mutant of adjust_desired_plab_sz: the sample is taken before ResizePLAB
\* is looked at.
adjust_desired_plab_sz_SamplesFirst(st, desired, avg, resize) ==
    LET avg_ == filter_sample(avg, cur_plab_sz(st))
    IN  IF ~resize
        THEN [stats |-> reset, desired |-> desired, filter |-> avg_]
        ELSE [stats |-> reset, desired |-> MAX2(min_size, filter_average(avg_)),
              filter |-> avg_]

\* G1EvacStats::adjust_desired_plab_sz(): the accumulators, the desired size
\* and the filter it leaves.
adjust_desired_plab_sz(st, desired, avg, resize) ==
    IF ~resize
    THEN [stats |-> reset, desired |-> desired, filter |-> avg]
    ELSE LET avg_ == filter_sample(avg, cur_plab_sz(st))
         IN  [stats |-> reset, desired |-> MAX2(min_size, filter_average(avg_)),
              filter |-> avg_]

NoAdjustment == [desired |-> 0, filter |-> 0]

\* The asserts of adjust_desired_plab_sz; the disabled path returns before
\* them.
adjust_desired_plab_sz_allowed(st, resize) ==
    resize =>
        /\ is_object_aligned(max_size) /\ min_size <= max_size
        /\ st.allocated = 0 => st.unused = 0

\* Counts as any caller can hand them over, consistent or not.
AnyStats ==
    [allocated : {0, 40}, wasted : {0, 1}, unused : {0, 1},
     region_end_waste : {0, 50}, regions_filled : {0}, direct_allocated : {0},
     failure_used : {0}, failure_waste : {0}]

\* The accumulators hold counts of any kind.
PlabCollectAny(st) ==
    /\ p_pc = "adjusted"
    /\ p_rounds < MaxPlabRounds
    /\ p_pc' = "collected"
    /\ p_stats' = st
    /\ p_fed' = st
    /\ UNCHANGED <<ResizePLAB, p_desired, p_filter, p_before, p_rounds, nonplab_vars>>

\* An assert of adjust_desired_plab_sz fails: the VM stops with the
\* accumulators, the desired size and the filter as they were.
PlabReject ==
    /\ p_pc = "collected"
    /\ ~adjust_desired_plab_sz_allowed(p_stats, ResizePLAB)
    /\ p_pc' = "failed"
    /\ UNCHANGED <<ResizePLAB, p_stats, p_fed, p_desired, p_filter, p_before,
                   p_rounds, nonplab_vars>>

\* A collection ran and left its counts in the accumulators.
PlabCollect(st) ==
    /\ p_pc = "adjusted"
    /\ p_rounds < MaxPlabRounds
    /\ p_pc' = "collected"
    /\ p_stats' = st
    /\ p_fed' = st
    /\ UNCHANGED <<ResizePLAB, p_desired, p_filter, p_before, p_rounds, nonplab_vars>>

\* A collection ran and left the same counts as the one before it.
PlabCollectSame ==
    /\ p_pc = "adjusted"
    /\ p_pc' = "collected"
    /\ p_stats' = [st \in DOMAIN p_stats |-> p_stats[st] + p_fed[st]]
    /\ UNCHANGED <<ResizePLAB, p_fed, p_desired, p_filter, p_before, p_rounds,
                   nonplab_vars>>

\* The collection ends with adjust_desired_plab_sz().
PlabAdjust ==
    /\ p_pc = "collected"
    /\ p_pc' = "adjusted"
    /\ adjust_desired_plab_sz_allowed(p_stats, ResizePLAB)
    /\ LET res == adjust_desired_plab_sz(p_stats, p_desired, p_filter, ResizePLAB)
       IN  /\ p_stats' = res.stats
           /\ p_desired' = res.desired
           /\ p_filter' = res.filter
    /\ p_before' = [desired |-> p_desired, filter |-> p_filter]
    /\ p_rounds' = IF p_rounds < MaxPlabRounds THEN p_rounds + 1 ELSE p_rounds
    /\ UNCHANGED <<ResizePLAB, p_fed, nonplab_vars>>

\* G1EvacStats::G1EvacStats(description, desired_plab_sz_, wt), before the
\* first collection's counts.
PlabIdle ==
    /\ ResizePLAB = TRUE
    /\ p_pc = "adjusted"
    /\ p_stats = ZeroStats
    /\ p_fed = [ZeroStats EXCEPT !.allocated = 40]
    /\ p_desired = min_size
    /\ p_filter = 0
    /\ p_before = NoAdjustment
    /\ p_rounds = 0

\* The same with either value of the flag, any configured size, and the
\* first collection's counts in the accumulators.
PlabInit ==
    /\ ResizePLAB \in BOOLEAN
    /\ p_pc = "collected"
    /\ p_fed \in CollectionStats
    /\ p_stats = p_fed
    /\ p_desired \in {min_size, max_size}
    /\ p_filter = 0
    /\ p_before = NoAdjustment
    /\ p_rounds = 0

(* ------------------------------------------------------------------ *)
(* oopDesc::identity_hash                                                *)
(* ------------------------------------------------------------------ *)

\* The hash field of a mark word lies above the age and the lock bits.
hash_shift == 5

hash(m) == m \div (2 ^ hash_shift)

has_no_hash(m) == hash(m) = 0

\* markOopDesc::is_unlocked: the biased-lock bit clear and the lock bits 01.
is_unlocked(m) == m % (2 * (lock_mask + 1)) = 1

\* slow_identity_hash(): the hash kept out of line for a locked object; an
\* object that is unlocked without a hash gets one installed in its header.
slow_identity_hash(m) ==
    LET h == 2
    IN  IF is_unlocked(m) /\ has_no_hash(m)
        THEN [path |-> "slow", value |-> h, mark |-> m + h * (2 ^ hash_shift)]
        ELSE [path |-> "slow", value |-> h, mark |-> m]

\* identity_hash() on an object whose mark word reads mrk: the path taken,
\* the value returned and the mark word left in the header.
identity_hash(mrk) ==
    IF is_unlocked(mrk) /\ ~has_no_hash(mrk)
    THEN [path |-> "fast", value |-> hash(mrk), mark |-> mrk]
    ELSE IF is_marked(mrk)
    THEN [path |-> "marked", value |-> hash(mrk), mark |-> mrk]
    ELSE slow_identity_hash(mrk)

NoHashCall == [called |-> FALSE, mrk |-> 0, path |-> "none", value |-> 0, after |-> 0]

\* A thread asks for the identity hash of the object.
IdentityHash ==
    /\ LET res == identity_hash(mark)
       IN  /\ mark' = res.mark
           /\ ih_last' = [called |-> TRUE, mrk |-> mark, path |-> res.path,
                          value |-> res.value, after |-> res.mark]
    /\ UNCHANGED <<fpc, fwd_p, oldMark, calls, n_calls, ft_last, chain_vars,
                   heap_vars, oop_vars, thr_vars, hr_vars, hum_vars, ver_vars,
                   plab_vars, iter_vars, mon_vars, new_vars>>

NoForwardTo ==
    [op |-> "none", p |-> NULL, compare |-> 0, before |-> 0, failed |-> FALSE,
     result |-> FALSE]

HashIdle == ih_last = NoHashCall /\ ft_last = NoForwardTo

\* Mutant of forward_to: the target is not checked against the reserved heap.
forward_to_NoHeapCheck(m, p) ==
    IF \/ ~check_obj_alignment(p)
       \/ decode_pointer(encode_pointer_as_mark(p)) # p
    THEN [failed |-> TRUE, mark |-> m]
    ELSE [failed |-> FALSE, mark |-> encode_pointer_as_mark(p)]

\* forward_to(p) on an object whose mark is m: the three asserts, then
\* set_mark(m). A failed assert stops the VM before the mark is written.
forward_to(m, p) ==
    IF \/ ~check_obj_alignment(p)
       \/ ~is_in_reserved(p)
       \/ decode_pointer(encode_pointer_as_mark(p)) # p
    THEN [failed |-> TRUE, mark |-> m]
    ELSE [failed |-> FALSE, mark |-> encode_pointer_as_mark(p)]

\* cas_forward_to(p, compare): the same asserts, then
\* cas_set_mark(m, compare) == compare.
cas_forward_to(m, p, compare) ==
    IF \/ ~check_obj_alignment(p)
       \/ ~is_in_reserved(p)
       \/ decode_pointer(encode_pointer_as_mark(p)) # p
    THEN [failed |-> TRUE, mark |-> m, result |-> FALSE]
    ELSE IF m = compare
         THEN [failed |-> FALSE, mark |-> encode_pointer_as_mark(p), result |-> TRUE]
         ELSE [failed |-> FALSE, mark |-> m, result |-> FALSE]

\* The targets a caller can pass: any address.
Addresses == 0 .. (AddressSpace - 1)

\* The marks a caller can pass as compare: one it read from the object now
\* or before the pause.
CompareMarks == UnforwardedMarks \cup {mark}

\* A scavenger calls forward_to(p) on the object.
ForwardTo(p) ==
    /\ ~ft_last.failed
    /\ LET res == forward_to(mark, p)
       IN  /\ mark' = res.mark
           /\ ft_last' = [op |-> "forward_to", p |-> p, compare |-> 0,
                          before |-> mark, failed |-> res.failed,
                          result |-> FALSE]
    /\ UNCHANGED <<fpc, fwd_p, oldMark, calls, n_calls, ih_last, chain_vars,
                   heap_vars, oop_vars, thr_vars, hr_vars, hum_vars, ver_vars,
                   plab_vars, iter_vars, mon_vars, new_vars>>

\* A parallel scavenger calls cas_forward_to(p, compare) on the object.
CasForwardTo(p, compare) ==
    /\ ~ft_last.failed
    /\ LET res == cas_forward_to(mark, p, compare)
       IN  /\ mark' = res.mark
           /\ ft_last' = [op |-> "cas_forward_to", p |-> p,
                          compare |-> compare, before |-> mark,
                          failed |-> res.failed, result |-> res.result]
    /\ UNCHANGED <<fpc, fwd_p, oldMark, calls, n_calls, ih_last, chain_vars,
                   heap_vars, oop_vars, thr_vars, hr_vars, hum_vars, ver_vars,
                   plab_vars, iter_vars, mon_vars, new_vars>>

IterIdle == did_activate = {}

(* ------------------------------------------------------------------ *)
(* The monitor of one refinement thread                                  *)
(* ------------------------------------------------------------------ *)

\* What the steps of this section leave alone.
nonmon_vars == <<chain_vars, heap_vars, fwd_vars, oop_vars, thr_vars, hr_vars,
                 hum_vars, ver_vars, plab_vars, hash_vars, iter_vars, new_vars>>

\* The threads that call activate(): the predecessor in the chain, or for
\* the primary thread the mutators. The monitor knows them as 2, 3, ...
Activators == 2 .. (NActivators + 1)

\* MutexLockerEx x(_monitor) in wait_for_completed_buffers.
WaitLock ==
    /\ t_pc = "lock"
    /\ m_owner = 0
    /\ m_owner' = 1
    /\ t_pc' = "test"
    /\ UNCHANGED <<m_active, a_pc, nonmon_vars>>

\* while (!should_terminate() && !is_active()) _monitor->wait(): the test
\* is made holding the monitor; wait() gives the monitor up and blocks in
\* one step, and leaving the loop gives it up at the end of the scope.
WaitTest ==
    /\ t_pc = "test"
    /\ m_owner = 1
    /\ m_owner' = 0
    /\ t_pc' = IF should_terminate \/ m_active THEN "running" ELSE "waiting"
    /\ UNCHANGED <<m_active, a_pc, nonmon_vars>>

\* wait() returns without a notify.
WaitSpurious ==
    /\ t_pc = "waiting"
    /\ t_pc' = "notified"
    /\ UNCHANGED <<m_owner, m_active, a_pc, nonmon_vars>>

\* wait() takes the monitor again and the loop tests the predicate again.
WaitReturn ==
    /\ t_pc = "notified"
    /\ m_owner = 0
    /\ m_owner' = 1
    /\ t_pc' = "test"
    /\ UNCHANGED <<m_active, a_pc, nonmon_vars>>

\* The inner loop of run_service is left.
RunLoop ==
    /\ t_pc = "running"
    /\ t_pc' = "deactivate"
    /\ UNCHANGED <<m_owner, m_active, a_pc, nonmon_vars>>

\* deactivate(): the flag is cleared holding the monitor, and the outer
\* loop goes back to wait_for_completed_buffers.
MonDeactivate ==
    /\ t_pc = "deactivate"
    /\ m_owner = 0
    /\ m_active' = FALSE
    /\ t_pc' = "lock"
    /\ UNCHANGED <<m_owner, a_pc, nonmon_vars>>

\* The caller found the thread inactive (is_active() is read without the
\* monitor) and calls activate().
ActivateCall(a) ==
    /\ a_pc[a] = "idle"
    /\ ~m_active
    /\ a_pc' = [a_pc EXCEPT ![a] = "lock"]
    /\ UNCHANGED <<m_owner, m_active, t_pc, nonmon_vars>>

\* MutexLockerEx x(_monitor) in activate().
ActivateLock(a) ==
    /\ a_pc[a] = "lock"
    /\ m_owner = 0
    /\ m_owner' = a
    /\ a_pc' = [a_pc EXCEPT ![a] = "set"]
    /\ UNCHANGED <<m_active, t_pc, nonmon_vars>>

\* set_active(true), or set_process_completed(true) for the primary thread.
ActivateSet(a) ==
    /\ a_pc[a] = "set"
    /\ m_owner = a
    /\ m_active' = TRUE
    /\ a_pc' = [a_pc EXCEPT ![a] = "notify"]
    /\ UNCHANGED <<m_owner, t_pc, nonmon_vars>>

\* Mutant of ActivateNotify: activate() returns without _monitor->notify().
ActivateNotify_NoNotify(a) ==
    /\ a_pc[a] = "notify"
    /\ m_owner = a
    /\ m_owner' = 0
    /\ a_pc' = [a_pc EXCEPT ![a] = "idle"]
    /\ UNCHANGED <<m_active, t_pc, nonmon_vars>>

\* _monitor->notify(), and the monitor is given up at the end of the scope.
ActivateNotify(a) ==
    /\ a_pc[a] = "notify"
    /\ m_owner = a
    /\ t_pc' = IF t_pc = "waiting" THEN "notified" ELSE t_pc
    /\ m_owner' = 0
    /\ a_pc' = [a_pc EXCEPT ![a] = "idle"]
    /\ UNCHANGED <<m_active, nonmon_vars>>

\* The thread has been started and is about to wait for work; nobody is in
\* activate().
MonIdle ==
    /\ m_owner = 0
    /\ m_active = FALSE
    /\ t_pc = "lock"
    /\ a_pc = [a \in Activators |-> "idle"]

(* ------------------------------------------------------------------ *)
(* Card scan of an old region                                            *)
(* ------------------------------------------------------------------ *)

\* What the steps of this section leave alone.
nonscan_vars == <<old_vars, ts, dict, mod, logc>>

\* A block of the region: an object, live or dead, objArray or not.
Block == [size : 1 .. MaxBlockWords, live : BOOLEAN, is_objArray : BOOLEAN]

RECURSIVE SumSizes(_, _)
\* Words of the first n blocks of b.
SumSizes(b, n) == IF n = 0 THEN 0 ELSE SumSizes(b, n - 1) + b[n].size

\* The address of the i-th block (bottom is 0) and top.
BlockStart(b, i) == SumSizes(b, i - 1)

BlocksTop(b) == SumSizes(b, Len(b))

\* The allocated part of the region, block by block.
Layouts ==
    {b \in UNION {[1 .. n -> Block] : n \in 1 .. RegionWords} :
        BlocksTop(b) <= RegionWords}

BlockIndex(b, addr) ==
    CHOOSE i \in 1 .. Len(b) :
        BlockStart(b, i) <= addr /\ addr < BlockStart(b, i) + b[i].size

\* block_start(addr): the start of the block that contains addr.
block_start(b, addr) == BlockStart(b, BlockIndex(b, addr))

\* block_size(cur) and obj->size() for the block that starts at cur.
block_size(b, cur) == b[BlockIndex(b, cur)].size

\* is_obj_dead(obj, this) for the object that starts at cur.
is_obj_dead(b, cur) == ~b[BlockIndex(b, cur)].live

NoCardScan ==
    [pc |-> "idle", blocks |-> <<>>, start |-> 0, end |-> 0, cur |-> 0,
     steps |-> <<>>, visits |-> <<>>, ret |-> FALSE]

\* oops_on_card_seq_iterate_careful(mr, cl) on an old region, mr trimmed to
\* the allocated part of the region: cur = block_start(start).
CardScanCall(b, mr_start, mr_end) ==
    /\ scan.pc = "idle"
    /\ 0 <= mr_start /\ mr_start < mr_end /\ mr_end <= BlocksTop(b)
    /\ scan' = [NoCardScan EXCEPT !.pc = "loop", !.blocks = b,
                                  !.start = mr_start, !.end = mr_end,
                                  !.cur = block_start(b, mr_start)]
    /\ UNCHANGED nonscan_vars

\* Mutant of CardScanBlock: the closure is applied whatever is_obj_dead says.
CardScanBlock_VisitsDead ==
    /\ scan.pc = "loop"
    /\ LET b == scan.blocks
           obj == scan.cur
           cur == obj + block_size(b, obj)
           full == \/ ~b[BlockIndex(b, obj)].is_objArray
                   \/ (obj >= scan.start /\ cur <= scan.end)
       IN  scan' = [scan EXCEPT
                       !.cur = cur,
                       !.steps = Append(scan.steps, obj),
                       !.visits = Append(scan.visits,
                                     [obj |-> obj,
                                      mode |-> IF full THEN "full" ELSE "bounded"]),
                       !.pc = IF cur < scan.end THEN "loop" ELSE "done",
                       !.ret = ~(cur < scan.end)]
    /\ UNCHANGED nonscan_vars

\* One round of the do-while loop: a dead object is stepped over by
\* block_size, a live one by its size and the closure applied to it, in full
\* unless it is an objArray that mr does not cover; the loop goes on while
\* cur < end, and the function returns true.
CardScanBlock ==
    /\ scan.pc = "loop"
    /\ LET b == scan.blocks
           obj == scan.cur
           cur == obj + block_size(b, obj)
           full == \/ ~b[BlockIndex(b, obj)].is_objArray
                   \/ (obj >= scan.start /\ cur <= scan.end)
       IN  scan' = [scan EXCEPT
                       !.cur = cur,
                       !.steps = Append(scan.steps, obj),
                       !.visits = IF is_obj_dead(b, obj) THEN scan.visits
                                  ELSE Append(scan.visits,
                                         [obj |-> obj,
                                          mode |-> IF full THEN "full" ELSE "bounded"]),
                       !.pc = IF cur < scan.end THEN "loop" ELSE "done",
                       !.ret = ~(cur < scan.end)]
    /\ UNCHANGED nonscan_vars

ScanIdle == scan = NoCardScan

(* ------------------------------------------------------------------ *)
(* G1ContiguousSpace: time stamp and scan_top                            *)
(* ------------------------------------------------------------------ *)

nonts_vars == <<old_vars, scan, dict, mod, logc>>

NoRead == [called |-> FALSE, value |-> 0, top |-> 0, scan_top |-> 0,
           gc_time_stamp |-> 0, global |-> 0]

\* The region after initialize(): bottom is 0, top and _scan_top are bottom
\* and the stamp is the heap's. retained records a record_retained_region()
\* since the space was last cleared, op the last call, failed a failed
\* guarantee.
NewRegionStamps ==
    [top |-> 0, scan_top |-> 0, gc_time_stamp |-> 0, global |-> 0,
     retained |-> FALSE, op |-> "initialize", failed |-> FALSE, read |-> NoRead]

\* An object is allocated in the region.
TsAllocate ==
    /\ ~ts.failed
    /\ ts.top < TsWords
    /\ ts' = [ts EXCEPT !.top = ts.top + 1, !.op = "allocate"]
    /\ UNCHANGED nonts_vars

\* G1CollectedHeap::increment_gc_time_stamp().
TsIncrementGlobal ==
    /\ ~ts.failed
    /\ ts.global < MaxStamp
    /\ ts' = [ts EXCEPT !.global = ts.global + 1, !.op = "increment"]
    /\ UNCHANGED nonts_vars

\* scan_top(): top is read, then the stamp; the region's _scan_top is
\* returned only if the stamp is the heap's.
scan_top(r) ==
    IF r.gc_time_stamp < r.global THEN r.top ELSE r.scan_top

TsScanTop ==
    /\ ~ts.failed
    /\ ts.gc_time_stamp <= ts.global
    /\ ts' = [ts EXCEPT !.op = "scan_top",
                        !.read = [called |-> TRUE, value |-> scan_top(ts),
                                  top |-> ts.top, scan_top |-> ts.scan_top,
                                  gc_time_stamp |-> ts.gc_time_stamp,
                                  global |-> ts.global]]
    /\ UNCHANGED nonts_vars

\* Mutant of TsRecordTimestamp: the stamp is set without the guarantee.
TsRecordTimestamp_NoGuarantee ==
    /\ ~ts.failed
    /\ ts' = [ts EXCEPT !.op = "record_timestamp",
                        !.gc_time_stamp = IF ts.gc_time_stamp < ts.global
                                          THEN ts.global ELSE ts.gc_time_stamp]
    /\ UNCHANGED nonts_vars

\* record_timestamp(): if the stamp is older than the heap's,
\* guarantee(st == _bottom || st == _top) and the stamp is set to the
\* heap's; a failed guarantee stops the VM.
TsRecordTimestamp ==
    /\ ~ts.failed
    /\ IF ts.gc_time_stamp < ts.global
       THEN IF ts.scan_top = 0 \/ ts.scan_top = ts.top
            THEN ts' = [ts EXCEPT !.op = "record_timestamp",
                                  !.gc_time_stamp = ts.global]
            ELSE ts' = [ts EXCEPT !.op = "record_timestamp", !.failed = TRUE]
       ELSE ts' = [ts EXCEPT !.op = "record_timestamp"]
    /\ UNCHANGED nonts_vars

\* record_retained_region(): _scan_top = top().
TsRecordRetainedRegion ==
    /\ ~ts.failed
    /\ ts' = [ts EXCEPT !.op = "record_retained_region", !.scan_top = ts.top,
                        !.retained = TRUE]
    /\ UNCHANGED nonts_vars

\* hr_clear(keep_remset, clear_space): the stamp is set to the heap's, and
\* clear() sets top and _scan_top to bottom.
TsHrClear(clear_space) ==
    /\ ~ts.failed
    /\ ts' = IF clear_space
             THEN [ts EXCEPT !.op = "hr_clear", !.gc_time_stamp = ts.global,
                             !.top = 0, !.scan_top = 0, !.retained = FALSE]
             ELSE [ts EXCEPT !.op = "hr_clear", !.gc_time_stamp = ts.global]
    /\ UNCHANGED nonts_vars

TsIdle == ts = NewRegionStamps

(* ------------------------------------------------------------------ *)
(* Dictionary: one bucket, the pd_set of its entries, lock-free readers  *)
(* ------------------------------------------------------------------ *)

nondict_vars == <<old_vars, scan, ts, mod, logc>>

Classes == 1 .. NClasses

PDs == 1 .. NPDs

Readers == 1 .. NReaders

\* klass()->protection_domain() of class c: the protection domain of the
\* same number, NULL for a class beyond the protection domains.
klass_pd(c) == IF c \in PDs THEN c ELSE NULL

NoWriter == [pc |-> "idle", op |-> "none", c |-> 0, p |-> 0]

NoReader == [pc |-> "idle", op |-> "none", c |-> 0, p |-> 0, left |-> 0,
             seen |-> {}, result |-> "none"]

\* A list is held head first; init tells whether the fields of a node have
\* been written. The node a writer is building is not in any list.
EmptyDictionary ==
    [bucket |-> <<>>,
     pd_set |-> [c \in Classes |-> <<>>],
     writer |-> NoWriter,
     readers |-> [r \in Readers |-> NoReader],
     bad |-> FALSE,
     last_add |-> [c |-> 0, p |-> 0]]

Linked(c) == \E i \in 1 .. Len(dict.bucket) : dict.bucket[i].klass = c

PdsOf(c) == {dict.pd_set[c][i].pd : i \in 1 .. Len(dict.pd_set[c])}

\* contains_protection_domain(pd) as the holder of the lock computes it.
contains_protection_domain(c, pd) == pd = klass_pd(c) \/ pd \in PdsOf(c)

\* add_klass under SystemDictionary_lock: new_entry() has allocated the
\* entry.
DictAddKlass(c) ==
    /\ dict.writer.pc = "idle"
    /\ ~Linked(c)
    /\ dict' = [dict EXCEPT !.writer = [pc |-> "construct", op |-> "add_klass",
                                        c |-> c, p |-> 0]]
    /\ UNCHANGED nondict_vars

\* Mutant of DictAddProtectionDomain: the new node is stored to _pd_set
\* before its constructor has run.
DictAddProtectionDomain_PublishRaw(c, pd) ==
    /\ dict.writer.pc = "idle"
    /\ Linked(c)
    /\ IF contains_protection_domain(c, pd)
       THEN dict' = [dict EXCEPT !.last_add = [c |-> c, p |-> pd]]
       ELSE dict' = [dict EXCEPT
                        !.writer = [pc |-> "construct", op |-> "published",
                                    c |-> c, p |-> pd],
                        !.pd_set[c] = <<[pd |-> pd, init |-> FALSE]>> \o @]
    /\ UNCHANGED nondict_vars

\* Mutant of DictAddProtectionDomain: no contains_protection_domain() test.
DictAddProtectionDomain_NoContains(c, pd) ==
    /\ dict.writer.pc = "idle"
    /\ Linked(c)
    /\ Len(dict.pd_set[c]) <= NPDs
    /\ dict' = [dict EXCEPT !.writer = [pc |-> "construct", op |-> "add_pd",
                                        c |-> c, p |-> pd]]
    /\ UNCHANGED nondict_vars

\* Dictionary::add_protection_domain under SystemDictionary_lock: the entry
\* is there and pd is not NULL; DictionaryEntry::add_protection_domain
\* allocates a node unless contains_protection_domain(pd).
DictAddProtectionDomain(c, pd) ==
    /\ dict.writer.pc = "idle"
    /\ Linked(c)
    /\ IF contains_protection_domain(c, pd)
       THEN dict' = [dict EXCEPT !.last_add = [c |-> c, p |-> pd]]
       ELSE dict' = [dict EXCEPT !.writer = [pc |-> "construct", op |-> "add_pd",
                                             c |-> c, p |-> pd]]
    /\ UNCHANGED nondict_vars

\* The fields of the new entry or node are written: set_pd_set(NULL) and
\* set_next(bucket) for an entry, the constructor
\* ProtectionDomainEntry(entry, _pd_set) for a node.
DictConstruct ==
    /\ dict.writer.pc = "construct"
    /\ dict' = IF dict.writer.op = "published"
               THEN [dict EXCEPT
                        !.writer = NoWriter,
                        !.pd_set[dict.writer.c] =
                            <<[pd |-> dict.writer.p, init |-> TRUE]>> \o Tail(@),
                        !.last_add = [c |-> dict.writer.c, p |-> dict.writer.p]]
               ELSE [dict EXCEPT !.writer.pc = "publish"]
    /\ UNCHANGED nondict_vars

\* The store that makes the new entry or node reachable: the store to the
\* bucket in add_entry, OrderAccess::release_store_ptr(&_pd_set, new_head).
\* Every store before it is visible to whoever reads the pointer.
DictPublish ==
    /\ dict.writer.pc = "publish"
    /\ dict' = IF dict.writer.op = "add_klass"
               THEN [dict EXCEPT
                        !.writer = NoWriter,
                        !.bucket = <<[klass |-> dict.writer.c, init |-> TRUE]>> \o @,
                        !.pd_set[dict.writer.c] = <<>>]
               ELSE [dict EXCEPT
                        !.writer = NoWriter,
                        !.pd_set[dict.writer.c] =
                            <<[pd |-> dict.writer.p, init |-> TRUE]>> \o @,
                        !.last_add = [c |-> dict.writer.c, p |-> dict.writer.p]]
    /\ UNCHANGED nondict_vars

\* get_entry without the lock: the bucket is read.
DictGetEntry(r, c) ==
    /\ dict.readers[r].pc = "idle"
    /\ dict' = [dict EXCEPT !.readers[r] =
                    [pc |-> "walk", op |-> "get_entry", c |-> c, p |-> 0,
                     left |-> Len(dict.bucket),
                     seen |-> {dict.bucket[i].klass : i \in 1 .. Len(dict.bucket)},
                     result |-> "none"]]
    /\ UNCHANGED nondict_vars

\* contains_protection_domain without the lock, on an entry the reader got
\* from get_entry: true at once for the klass's own protection domain,
\* otherwise _pd_set is read.
DictContains(r, c, pd) ==
    /\ dict.readers[r].pc = "idle"
    /\ Linked(c)
    /\ dict' = [dict EXCEPT !.readers[r] =
                    IF pd = klass_pd(c)
                    THEN [pc |-> "done", op |-> "contains", c |-> c, p |-> pd,
                          left |-> 0, seen |-> PdsOf(c), result |-> "true"]
                    ELSE [pc |-> "walk", op |-> "contains", c |-> c, p |-> pd,
                          left |-> Len(dict.pd_set[c]), seen |-> PdsOf(c),
                          result |-> "none"]]
    /\ UNCHANGED nondict_vars

\* One round of the reader's loop: NULL ends it; otherwise the node the
\* pointer leads to is read (bad if its fields are not written yet or it
\* has been freed) and either matches or hands over its next pointer.
DictWalk(r) ==
    /\ dict.readers[r].pc = "walk"
    /\ LET rd == dict.readers[r]
           list == IF rd.op = "get_entry" THEN dict.bucket ELSE dict.pd_set[rd.c]
           i == Len(list) - rd.left + 1
       IN  IF rd.left = 0
           THEN dict' = [dict EXCEPT
                            !.readers[r].pc = "done",
                            !.readers[r].result =
                                IF rd.op = "get_entry" THEN "NULL" ELSE "false"]
           ELSE IF i < 1 \/ ~list[i].init
           THEN dict' = [dict EXCEPT !.bad = TRUE, !.readers[r].pc = "done",
                                     !.readers[r].result = "garbage"]
           ELSE IF \/ rd.op = "get_entry" /\ list[i].klass = rd.c
                   \/ rd.op = "contains" /\ list[i].pd = rd.p
           THEN dict' = [dict EXCEPT
                            !.readers[r].pc = "done",
                            !.readers[r].result =
                                IF rd.op = "get_entry" THEN "entry" ELSE "true"]
           ELSE dict' = [dict EXCEPT !.readers[r].left = rd.left - 1]
    /\ UNCHANGED nondict_vars

\* The reader is done with what it found.
DictReturn(r) ==
    /\ dict.readers[r].pc = "done"
    /\ dict' = [dict EXCEPT !.readers[r] = NoReader]
    /\ UNCHANGED nondict_vars

RECURSIVE Without(_, _)
\* The list without the entries of the classes in S.
Without(list, S) ==
    IF list = <<>> THEN <<>>
    ELSE IF Head(list).klass \in S THEN Without(Tail(list), S)
    ELSE <<Head(list)>> \o Without(Tail(list), S)

\* do_unloading at a safepoint: no thread is inside the dictionary. The
\* entries of the classes in S are unlinked and freed with their pd_set.
DictDoUnloading(S) ==
    /\ dict.writer.pc = "idle"
    /\ \A r \in Readers : dict.readers[r].pc = "idle"
    /\ S # {}
    /\ \A c \in S : Linked(c)
    /\ dict' = [dict EXCEPT
                    !.bucket = Without(dict.bucket, S),
                    !.pd_set = [c \in Classes |-> IF c \in S THEN <<>> ELSE @[c]],
                    !.last_add = IF @.c \in S THEN [c |-> 0, p |-> 0] ELSE @]
    /\ UNCHANGED nondict_vars

DictIdle == dict = EmptyDictionary

(* ------------------------------------------------------------------ *)
(* ModuleEntry: the shared protection domain and the reads list          *)
(* ------------------------------------------------------------------ *)

nonmod_vars == <<old_vars, scan, ts, dict, logc>>

Callers == 1 .. NCallers

\* The modules read edges can lead to. Module 1 is defined by the loader
\* of the reading module, module 2 by a builtin loader, every other module
\* by a loader of its own that is neither.
Modules == 1 .. NModules

own_loader == 1

builtin_loader == 2

loader_data(m) == m

is_builtin_class_loader_data(l) == l = builtin_loader

\* A new ModuleEntry: no protection domain cached, no reads list. obj is
\* the handle each caller created, n_handles the handles created so far,
\* unloading the loaders found dead, op the last call.
NewModuleEntry ==
    [pd |-> NULL, handles |-> {}, n_handles |-> 0,
     pc |-> [c \in Callers |-> "idle"], obj |-> [c \in Callers |-> NULL],
     reads |-> <<>>, must_walk_reads |-> FALSE, can_read_all_unnamed |-> FALSE,
     unloading |-> {}, op |-> "none"]

\* jobject obj = loader_data->add_handle(pd_h);
ModAddHandle(c) ==
    /\ mod.pc[c] = "idle"
    /\ mod.n_handles < MaxPdCalls
    /\ mod' = [mod EXCEPT !.pc[c] = "cas", !.obj[c] = mod.n_handles + 1,
                          !.n_handles = mod.n_handles + 1,
                          !.handles = @ \cup {mod.n_handles + 1},
                          !.op = "add_handle"]
    /\ UNCHANGED nonmod_vars

\* Mutant of ModCas: _pd is stored without the compare.
ModCas_PlainStore(c) ==
    /\ mod.pc[c] = "cas"
    /\ mod' = [mod EXCEPT !.pd = mod.obj[c], !.pc[c] = "idle",
                          !.obj[c] = NULL, !.op = "cmpxchg"]
    /\ UNCHANGED nonmod_vars

\* if (Atomic::cmpxchg_ptr(obj, &_pd, NULL) != NULL): the handle is saved
\* if _pd was NULL; otherwise the caller goes on to remove its handle.
ModCas(c) ==
    /\ mod.pc[c] = "cas"
    /\ mod' = IF mod.pd = NULL
              THEN [mod EXCEPT !.pd = mod.obj[c], !.pc[c] = "idle",
                               !.obj[c] = NULL, !.op = "cmpxchg"]
              ELSE [mod EXCEPT !.pc[c] = "remove", !.op = "cmpxchg"]
    /\ UNCHANGED nonmod_vars

\* loader_data->remove_handle_unsafe(obj);
ModRemoveHandle(c) ==
    /\ mod.pc[c] = "remove"
    /\ mod' = [mod EXCEPT !.handles = @ \ {mod.obj[c]}, !.pc[c] = "idle",
                          !.obj[c] = NULL, !.op = "remove_handle"]
    /\ UNCHANGED nonmod_vars

InReads(m) == \E i \in 1 .. Len(mod.reads) : mod.reads[i] = m

\* GrowableArray::append_if_missing.
append_if_missing(list, m) ==
    IF \E i \in 1 .. Len(list) : list[i] = m THEN list ELSE Append(list, m)

\* set_read_walk_required(m_loader_data): the value it leaves in
\* _must_walk_reads.
set_read_walk_required(must_walk, m_loader_data) ==
    IF /\ ~must_walk
       /\ own_loader # m_loader_data
       /\ ~is_builtin_class_loader_data(m_loader_data)
    THEN TRUE ELSE must_walk

\* add_read(NULL) under Module_lock: set_can_read_all_unnamed().
ModAddReadNull ==
    /\ mod' = [mod EXCEPT !.can_read_all_unnamed = TRUE, !.op = "add_read_null"]
    /\ UNCHANGED nonmod_vars

\* Mutant of ModAddRead: the edge is added without set_read_walk_required.
ModAddRead_NoWalkRequired(m) ==
    /\ loader_data(m) \notin mod.unloading
    /\ mod' = [mod EXCEPT !.reads = append_if_missing(mod.reads, m),
                          !.op = "add_read"]
    /\ UNCHANGED nonmod_vars

\* add_read(m) under Module_lock, m a module of a loader that is alive.
ModAddRead(m) ==
    /\ loader_data(m) \notin mod.unloading
    /\ mod' = [mod EXCEPT
                   !.must_walk_reads =
                       set_read_walk_required(mod.must_walk_reads, loader_data(m)),
                   !.reads = append_if_missing(mod.reads, m),
                   !.op = "add_read"]
    /\ UNCHANGED nonmod_vars

\* A safepoint finds the loader l dead: neither a builtin loader nor the
\* loader of the reading module, which would go with it.
ModUnload(l) ==
    /\ l \in Modules \ {own_loader, builtin_loader}
    /\ l \notin mod.unloading
    /\ mod' = [mod EXCEPT !.unloading = @ \cup {l}, !.op = "unload"]
    /\ UNCHANGED nonmod_vars

RECURSIVE purge_walk(_, _, _)
\* The loop of purge_reads from index idx down to 1: the list and the flag
\* it leaves.
purge_walk(list, must_walk, idx) ==
    IF idx = 0 THEN [reads |-> list, must_walk_reads |-> must_walk]
    ELSE IF loader_data(list[idx]) \in mod.unloading
    THEN purge_walk([i \in 1 .. (Len(list) - 1) |->
                        IF i < idx THEN list[i] ELSE list[i + 1]],
                    must_walk, idx - 1)
    ELSE purge_walk(list,
                    set_read_walk_required(must_walk, loader_data(list[idx])),
                    idx - 1)

\* purge_reads() at a safepoint.
ModPurgeReads ==
    /\ mod' = IF mod.must_walk_reads /\ Len(mod.reads) > 0
              THEN LET res == purge_walk(mod.reads, FALSE, Len(mod.reads))
                   IN  [mod EXCEPT !.reads = res.reads,
                                   !.must_walk_reads = res.must_walk_reads,
                                   !.op = "purge_reads"]
              ELSE [mod EXCEPT !.op = "purge_reads"]
    /\ UNCHANGED nonmod_vars

ModIdle == mod = NewModuleEntry

(* ------------------------------------------------------------------ *)
(* LogConfiguration: the array of outputs                                *)
(* ------------------------------------------------------------------ *)

nonlog_vars == <<old_vars, scan, ts, dict, mod>>

\* _outputs[0] = &StdoutLog; _outputs[1] = &StderrLog; the file outputs
\* are numbered after them.
StdoutLog == 0

StderrLog == 1

LogOutputs == StdoutLog .. (StderrLog + NFiles)

LogFiles == LogOutputs \ {StdoutLog, StderrLog}

TagSets == 1 .. NTagSets

LogLevels == {"Off", "Warning"}

\* What a LogTagLevelExpression says of each tag set.
LogExpressions == [TagSets -> LogLevels \cup {"NotMentioned"}]

\* set_config_string("all=off").
AllOff == [off |-> TRUE, tags |-> {}]

\* clear_config_string().
NoConfig == [off |-> FALSE, tags |-> {}]

\* Before initialize: _outputs is NULL. level is the level of each tag set
\* on each output (stdout starts at the default level Warning), config the
\* config string of each output, op, arg and prev_n the last call, its
\* index and _n_outputs before it.
NoLogConfiguration ==
    [initialized |-> FALSE, outputs |-> <<>>,
     level |-> [t \in TagSets |-> [o \in LogOutputs |->
                   IF o = StdoutLog THEN "Warning" ELSE "Off"]],
     config |-> [o \in LogOutputs |->
                   IF o = StdoutLog
                   THEN [off |-> FALSE, tags |-> {<<t, "Warning">> : t \in TagSets}]
                   ELSE AllOff],
     op |-> "none", arg |-> 0, prev_n |-> 0]

n_outputs(l) == Len(l.outputs)

\* LogTagSet::has_output.
has_output(l, t, output) == l.level[t][output] # "Off"

\* initialize(): asserts _outputs == NULL.
LogInitialize ==
    /\ ~logc.initialized
    /\ logc' = [logc EXCEPT !.initialized = TRUE,
                            !.outputs = <<StdoutLog, StderrLog>>,
                            !.op = "initialize", !.arg = 0, !.prev_n = 0]
    /\ UNCHANGED nonlog_vars

\* add_output(output) for a new file output, as parse_log_arguments calls
\* it when find_output does not find the name.
LogAddOutput(f) ==
    /\ logc.initialized
    /\ f \in LogFiles
    /\ \A i \in 1 .. n_outputs(logc) : logc.outputs[i] # f
    /\ logc' = [logc EXCEPT !.outputs = Append(@, f), !.config[f] = NoConfig,
                            !.op = "add_output", !.arg = n_outputs(logc),
                            !.prev_n = n_outputs(logc)]
    /\ UNCHANGED nonlog_vars

\* The assert of delete_output.
delete_output_allowed(l, idx) == idx > StderrLog /\ idx < n_outputs(l)

\* delete_output(idx): swap places with the last output and shrink.
delete_output(l, idx) ==
    [l EXCEPT !.outputs = [i \in 1 .. (n_outputs(l) - 1) |->
                              IF i = idx + 1 THEN l.outputs[n_outputs(l)]
                              ELSE l.outputs[i]]]

\* delete_output(idx) on an output that no tag set uses, the state in
\* which configure_output and disable_output call it.
LogDeleteOutput(idx) ==
    /\ logc.initialized
    /\ delete_output_allowed(logc, idx)
    /\ \A t \in TagSets : ~has_output(logc, t, logc.outputs[idx + 1])
    /\ logc' = [delete_output(logc, idx) EXCEPT
                   !.op = "delete_output", !.arg = idx, !.prev_n = n_outputs(logc)]
    /\ UNCHANGED nonlog_vars

\* The tag sets the first loop of configure_output passes over.
Ignored(l, output, e, t) ==
    ~has_output(l, t, output) /\ e[t] \in {"NotMentioned", "Off"}

\* The level the loop of configure_output leaves a tag set at.
configured_level(l, output, e, t) ==
    IF Ignored(l, output, e, t) \/ e[t] = "NotMentioned"
    THEN l.level[t][output] ELSE e[t]

\* bool enabled after the loop.
enabled(l, output, e) ==
    \E t \in TagSets : ~Ignored(l, output, e, t) /\ e[t] # "Off"

\* The config string the loop builds.
configured_string(l, output, e) ==
    [off |-> FALSE,
     tags |-> {<<t, configured_level(l, output, e, t)>> :
                  t \in {u \in TagSets : ~Ignored(l, output, e, u) /\ e[u] # "Off"}}]

\* The loop of configure_output and set_decorators.
configure_levels(l, output, e) ==
    [l EXCEPT !.level = [t \in TagSets |->
                  [l.level[t] EXCEPT ![output] = configured_level(l, output, e, t)]],
              !.config[output] = configured_string(l, output, e)]

\* Mutant of configure_output: an unused output is never removed.
configure_output_KeepsUnused(l, idx, e) ==
    LET output == l.outputs[idx + 1]
        done   == configure_levels(l, output, e)
    IN  IF enabled(l, output, e) THEN done
        ELSE [done EXCEPT !.config[output] = AllOff]

\* configure_output(idx, tag_level_expression, decorators).
configure_output(l, idx, e) ==
    LET output == l.outputs[idx + 1]
        done   == configure_levels(l, output, e)
    IN  IF enabled(l, output, e) THEN done
        ELSE IF idx > StderrLog THEN delete_output(done, idx)
        ELSE [done EXCEPT !.config[output] = AllOff]

\* configure_output under the configuration lock; asserts idx < _n_outputs.
LogConfigureOutput(idx, e) ==
    /\ logc.initialized
    /\ idx < n_outputs(logc)
    /\ logc' = [configure_output(logc, idx, e) EXCEPT
                   !.op = "configure_output", !.arg = idx, !.prev_n = n_outputs(logc)]
    /\ UNCHANGED nonlog_vars

\* disable_output(idx).
disable_output(l, idx) ==
    LET out  == l.outputs[idx + 1]
        done == [l EXCEPT !.level = [t \in TagSets |->
                              [l.level[t] EXCEPT ![out] = "Off"]]]
    IN  IF idx > StderrLog THEN delete_output(done, idx)
        ELSE [done EXCEPT !.config[out] = AllOff]

\* disable_output(idx); asserts idx < _n_outputs.
LogDisableOutput(idx) ==
    /\ logc.initialized
    /\ idx < n_outputs(logc)
    /\ logc' = [disable_output(logc, idx) EXCEPT
                   !.op = "disable_output", !.arg = idx, !.prev_n = n_outputs(logc)]
    /\ UNCHANGED nonlog_vars

RECURSIVE disable_from(_, _)
\* for (size_t i = _n_outputs; i > 0; i--) disable_output(i - 1);
disable_from(l, i) ==
    IF i = 0 THEN l ELSE disable_from(disable_output(l, i - 1), i - 1)

\* disable_logging().
LogDisableLogging ==
    /\ logc.initialized
    /\ logc' = [disable_from(logc, n_outputs(logc)) EXCEPT
                   !.op = "disable_logging", !.arg = 0, !.prev_n = n_outputs(logc)]
    /\ UNCHANGED nonlog_vars

LogIdle == logc = NoLogConfiguration

NewIdle == ScanIdle /\ TsIdle /\ DictIdle /\ ModIdle /\ LogIdle

LateIdle == PlabIdle /\ HashIdle /\ IterIdle /\ MonIdle /\ NewIdle

(* ------------------------------------------------------------------ *)
(* Specification of the refinement chain                                 *)
(* ------------------------------------------------------------------ *)

\* No threshold has been updated.
ThrIdle == n_updates = 0

\* Nothing outside the chain, the forwarding race and the conversions has
\* happened.
ExtIdle == ThrIdle /\ HRInit /\ HumInit /\ VerIdle /\ LateIdle

HeapInit ==
    /\ field = [c \in Cards |-> 0]
    /\ dirty = [c \in Cards |-> FALSE]
    /\ rem_set = [r \in Regions |-> {}]
    /\ mut_buf = <<>>

\* State after the constructors ran with thresholds act and deact.
ChainInit(act, deact) ==
    /\ pc = [t \in Threads |-> "wait"]
    /\ active = [t \in Threads |-> FALSE]
    /\ activation_threshold = act
    /\ deactivation_threshold = deact
    /\ curr_buffer_num = [t \in Threads |-> 0]
    /\ cur_buf = [t \in Threads |-> NoBuf]
    /\ should_terminate = FALSE
    /\ queue = <<>>
    /\ process_completed = FALSE
    /\ completed_queue_padding = 0
    /\ n_enqueued = 0
    /\ n_processed = [b \in BufIds |-> 0]
    /\ peak = 0
    /\ suspend_all = FALSE
    /\ in_pause = FALSE
    /\ sts_joined = {}
    /\ sts_stopped = {}
    /\ n_safepoints = 0

Init == ChainInit(InitActivation, InitDeactivation) /\ HeapInit /\ FwdIdle /\ OopIdle /\ ExtIdle

ThreadStep(t) ==
    \/ WaitForCompletedBuffers(t)
    \/ StsJoin(t)
    \/ LoopHead(t)
    \/ Yield(t)
    \/ ActivateNext(t)
    \/ ApplyClosure(t)
    \/ ProcessBuffer(t)
    \/ Deactivate(t)

Next ==
    \/ \E t \in Threads : ThreadStep(t)
    \/ MutatorEnqueue
    \/ SafepointRequest
    \/ SafepointBegin
    \/ PauseUpdateRS
    \/ SafepointEnd
    \/ stop_service

Spec == Init /\ [][Next]_vars

\* Scheduling: every refinement thread that can take a step eventually
\* takes one, and a requested safepoint operation eventually begins, once
\* every joined thread has stopped, and ends. Mutators and the requester of
\* safepoints and of termination are under no obligation.
Fairness ==
    /\ \A t \in Threads : WF_vars(ThreadStep(t))
    /\ WF_vars(SafepointBegin)
    /\ WF_vars(SafepointEnd)

FairSpec == Init /\ [][Next]_vars /\ Fairness

\* The chain without shutdown.
NextRunning ==
    \/ \E t \in Threads : ThreadStep(t)
    \/ MutatorEnqueue
    \/ SafepointRequest
    \/ SafepointBegin
    \/ PauseUpdateRS
    \/ SafepointEnd

FairSpecRunning == Init /\ [][NextRunning]_vars /\ Fairness

\* The chain while its thresholds are being adjusted, without shutdown.
NextThresholds ==
    \/ \E t \in Threads : ThreadStep(t)
    \/ MutatorEnqueue
    \/ SafepointRequest
    \/ SafepointBegin
    \/ PauseUpdateRS
    \/ SafepointEnd
    \/ \E t \in Threads, a \in ThresholdValues, d \in ThresholdValues :
          update_thresholds(t, a, d)

SpecThresholds == Init /\ [][NextThresholds]_vars

(* ------------------------------------------------------------------ *)
(* Specification of the remembered sets: the chain driven by stores      *)
(* ------------------------------------------------------------------ *)

NextRS ==
    \/ \E t \in Threads : ThreadStep(t)
    \/ \E c \in Cards, r \in Regions \cup {0} : MutatorStore(c, r)
    \/ SafepointRequest
    \/ SafepointBegin
    \/ PauseUpdateRS
    \/ SafepointEnd

\* Threads 0 and 1 are switched on above one buffer and off at none, so
\* that two threads work on the few buffers the cards of this heap can
\* fill; the threads behind them need a backlog this heap never builds.
InitRS ==
    /\ ChainInit([t \in Threads |-> IF t <= 1 THEN 1 ELSE MaxBuffers],
                 [t \in Threads |-> 0])
    /\ HeapInit
    /\ FwdIdle
    /\ OopIdle
    /\ ExtIdle

SpecRS == InitRS /\ [][NextRS]_vars


(* ------------------------------------------------------------------ *)
(* Specification of the heap regions                                     *)
(* ------------------------------------------------------------------ *)

\* The regions as the allocator and the collector drive them: set_free is
\* reached through hr_clear.
NextHR ==
    \E r \in HRegions :
        \/ \E tag \in {"Eden", "Survivor", "Old", "Archive"} : HRSetType(r, tag)
        \/ HRSetStartsHumongous(r)
        \/ \E first_hr \in HRegions : HRSetContinuesHumongous(r, first_hr)
        \/ HRClearHumongous(r)
        \/ \E k \in BOOLEAN, c \in BOOLEAN, l \in BOOLEAN : HRClear(r, k, c, l)
        \/ HRInitialize(r)
        \/ \E m \in {1, GrainWords} : HRNoteMarked(r, m)
        \/ HRAllocate(r)
        \/ \E from_ \in HRegions : HRAddReference(r, from_)
        \/ \E b \in BOOLEAN : HRSetInCSet(r, b)

SpecHR == Init /\ [][NextHR]_vars

\* The same with set_free also called on its own.
NextHRCalls == NextHR \/ \E r \in HRegions : HRSetFree(r)

SpecHRCalls == Init /\ [][NextHRCalls]_vars

(* ------------------------------------------------------------------ *)
(* Specification of the humongous card scan                              *)
(* ------------------------------------------------------------------ *)

NextHum ==
    \/ HumAllocate
    \/ HumInitField
    \/ HumPublish
    \/ \E j \in 1 .. (NHFields + 1) : HumStoreVisible(j)
    \/ HumGCBegin
    \/ HumGCEnd
    \/ \E mr \in HumCards, is_objArray \in BOOLEAN : ScanBegin(mr, is_objArray)
    \/ \E obj_dead \in BOOLEAN : ScanCheck(obj_dead)
    \/ ScanVisit
    \/ ScanReturn

SpecHum == Init /\ [][NextHum]_vars

(* ------------------------------------------------------------------ *)
(* Specification of the card scan of an old region                       *)
(* ------------------------------------------------------------------ *)

NextCardScan ==
    \/ \E b \in Layouts, mr_start \in 0 .. (RegionWords - 1),
          mr_end \in 1 .. RegionWords :
          CardScanCall(b, mr_start, mr_end)
    \/ CardScanBlock

SpecCardScan == Init /\ [][NextCardScan]_vars

(* ------------------------------------------------------------------ *)
(* Specification of the time stamps of a region                          *)
(* ------------------------------------------------------------------ *)

NextStamps ==
    \/ TsAllocate
    \/ TsIncrementGlobal
    \/ TsScanTop
    \/ TsRecordTimestamp
    \/ TsRecordRetainedRegion
    \/ \E clear_space \in BOOLEAN : TsHrClear(clear_space)

SpecStamps == Init /\ [][NextStamps]_vars

(* ------------------------------------------------------------------ *)
(* Specification of the dictionary                                       *)
(* ------------------------------------------------------------------ *)

NextDict ==
    \/ \E c \in Classes : DictAddKlass(c)
    \/ \E c \in Classes, pd \in PDs : DictAddProtectionDomain(c, pd)
    \/ DictConstruct
    \/ DictPublish
    \/ \E r \in Readers, c \in Classes : DictGetEntry(r, c)
    \/ \E r \in Readers, c \in Classes, pd \in PDs : DictContains(r, c, pd)
    \/ \E r \in Readers : DictWalk(r) \/ DictReturn(r)
    \/ \E S \in SUBSET Classes : DictDoUnloading(S)

SpecDict == Init /\ [][NextDict]_vars

(* ------------------------------------------------------------------ *)
(* Specifications of a module entry                                      *)
(* ------------------------------------------------------------------ *)

NextModPd ==
    \E c \in Callers :
        \/ ModAddHandle(c)
        \/ ModCas(c)
        \/ ModRemoveHandle(c)

SpecModPd == Init /\ [][NextModPd]_vars

NextModReads ==
    \/ ModAddReadNull
    \/ \E m \in Modules : ModAddRead(m)
    \/ \E l \in Modules : ModUnload(l)
    \/ ModPurgeReads

SpecModReads == Init /\ [][NextModReads]_vars

(* ------------------------------------------------------------------ *)
(* Specification of the log configuration                                *)
(* ------------------------------------------------------------------ *)

NextLog ==
    \/ LogInitialize
    \/ \E f \in LogFiles : LogAddOutput(f)
    \/ \E idx \in 0 .. (StderrLog + NFiles) :
          \/ LogDeleteOutput(idx)
          \/ LogDisableOutput(idx)
          \/ \E e \in LogExpressions : LogConfigureOutput(idx, e)
    \/ LogDisableLogging

SpecLog == Init /\ [][NextLog]_vars

(* ------------------------------------------------------------------ *)
(* Specification of remembered set verification                          *)
(* ------------------------------------------------------------------ *)

InitVerify ==
    /\ ChainInit(InitActivation, InitDeactivation)
    /\ HeapInit
    /\ FwdIdle
    /\ OopIdle
    /\ ThrIdle
    /\ HRInit
    /\ HumInit
    /\ VerInit
    /\ LateIdle

NextVerify == HeapRegionVerifyRemSet

SpecVerify == InitVerify /\ [][NextVerify]_vars

(* ------------------------------------------------------------------ *)
(* Specification of the monitor of a refinement thread                   *)
(* ------------------------------------------------------------------ *)

TargetStep ==
    \/ WaitLock
    \/ WaitTest
    \/ WaitReturn
    \/ RunLoop
    \/ MonDeactivate

ActivatorStep(a) ==
    \/ ActivateLock(a)
    \/ ActivateSet(a)
    \/ ActivateNotify(a)

NextMonitor ==
    \/ TargetStep
    \/ WaitSpurious
    \/ \E a \in Activators : ActivateCall(a) \/ ActivatorStep(a)

\* Scheduling: a thread that can take its next step takes it, in
\* wait_for_completed_buffers and deactivate as inside activate(). Nobody has
\* to call activate(), and wait() need not return without a notify.
FairSpecMonitor ==
    /\ Init
    /\ [][NextMonitor]_vars
    /\ WF_vars(TargetStep)
    /\ \A a \in Activators : WF_vars(ActivatorStep(a))

(* ------------------------------------------------------------------ *)
(* Specification of PLAB sizing                                          *)
(* ------------------------------------------------------------------ *)

InitPlab ==
    /\ ChainInit(InitActivation, InitDeactivation)
    /\ HeapInit
    /\ FwdIdle
    /\ OopIdle
    /\ ThrIdle
    /\ HRInit
    /\ HumInit
    /\ VerIdle
    /\ PlabInit
    /\ HashIdle
    /\ IterIdle
    /\ MonIdle
    /\ NewIdle

\* Collections with any counts, each ended by an adjustment.
NextPlab ==
    \/ \E st \in CollectionStats : PlabCollect(st)
    \/ PlabAdjust

SpecPlab == InitPlab /\ [][NextPlab]_vars

\* Rounds with counts of any kind; an adjustment either passes its asserts
\* or stops the VM.
NextPlabAny ==
    \/ \E st \in AnyStats : PlabCollectAny(st)
    \/ PlabAdjust
    \/ PlabReject

SpecPlabAny == InitPlab /\ [][NextPlabAny]_vars

\* Collections that all leave the same counts; every collection ends, and
\* the next one follows.
NextPlabSame ==
    \/ PlabCollectSame
    \/ PlabAdjust

FairSpecPlabSame ==
    InitPlab /\ [][NextPlabSame]_vars /\ WF_vars(PlabCollectSame) /\ WF_vars(PlabAdjust)

(* ------------------------------------------------------------------ *)
(* Specification of forwarding in an evacuation pause                    *)
(* ------------------------------------------------------------------ *)

InitFwd ==
    /\ ChainInit(InitActivation, InitDeactivation)
    /\ HeapInit
    /\ FwdInit
    /\ OopIdle
    /\ ExtIdle

NextFwd ==
    \E w \in Workers :
        \/ ForwardCall(w)
        \/ ForwardReadMark(w)
        \/ ForwardCas(w)
        \/ ForwardReturnForwardee(w)

SpecFwd == InitFwd /\ [][NextFwd]_vars

\* The plain and the compare-and-swap forwarding calls of the scavengers.
NextForwardTo ==
    \E p \in Addresses :
        \/ ForwardTo(p)
        \/ \E compare \in CompareMarks : CasForwardTo(p, compare)

SpecForwardTo == InitFwd /\ [][NextForwardTo]_vars

\* The forwarding race with identity_hash() calls on the same object.
NextHash ==
    \/ NextFwd
    \/ IdentityHash

SpecHash == InitFwd /\ [][NextHash]_vars

(* ------------------------------------------------------------------ *)
(* Specification of the oop conversions                                  *)
(* ------------------------------------------------------------------ *)

InitOop ==
    /\ ChainInit(InitActivation, InitDeactivation)
    /\ HeapInit
    /\ FwdIdle
    /\ OopInit
    /\ ExtIdle

NextOop == EncodeHeapOop \/ DecodeHeapOop

SpecOop == InitOop /\ [][NextOop]_vars

(* ------------------------------------------------------------------ *)
(* Properties of the refinement chain                                    *)
(* ------------------------------------------------------------------ *)

\* The thread is blocked in wait_for_completed_buffers with its flag clear.
Idle(t) == pc[t] = "wait" /\ ~is_active(t)

\* Refinement has quiesced: every refinement thread is Idle.
Quiesced == \A t \in Threads : Idle(t)

InQueue(c) == \E i \in 1 .. Len(queue) : c \in CardsOf(queue[i].cards)

\* The store into the card went through the barrier and its buffer was
\* handed over (the card is not waiting in the mutator's own buffer).
Enqueued(c) == c \notin CardsOf(mut_buf)

\* C1 as stated: once every refinement thread is Idle, the remembered set
\* of B holds the card of every cross-region reference into B whose card was
\* dirtied and enqueued.
C1_QuiescedRemSetComplete ==
    Quiesced =>
        \A c \in Cards :
            (CrossRegion(c) /\ Enqueued(c)) => c \in rem_set[field[c]]

\* C1 amended: once every refinement thread is Idle, every enqueued
\* cross-region reference into B is recorded in B's remembered set or its
\* card is still dirty and waiting in the completed buffer queue, which is
\* what remembered-set verification accepts; no step of the chain loses
\* both.
C1_QuiescedRemSetOrDirty ==
    Quiesced =>
        \A c \in Cards :
            (CrossRegion(c) /\ Enqueued(c)) =>
                /\ ~is_bad(c)
                /\ (c \notin rem_set[field[c]] => InQueue(c))

\* Witness of C1: refinement is quiescent, one reference was recorded by a
\* refinement thread or the pause, another one still waits on a dirty card.
C1_Witness ==
    /\ Quiesced
    /\ \E c \in Cards : CrossRegion(c) /\ ~dirty[c] /\ c \in rem_set[field[c]]
    /\ \E c \in Cards : CrossRegion(c) /\ dirty[c] /\ InQueue(c)
                         /\ c \notin rem_set[field[c]]

Holding(t) == cur_buf[t].id # 0

\* C2: no completed buffer is processed twice, no two threads hold the same
\* buffer, and a buffer a thread holds is off the queue and unprocessed.
C2_ProcessedAtMostOnce ==
    /\ \A b \in BufIds : n_processed[b] <= 1
    /\ \A t1, t2 \in Threads :
          (t1 # t2 /\ Holding(t1)) => cur_buf[t1].id # cur_buf[t2].id
    /\ \A t \in Threads :
          Holding(t) =>
              /\ n_processed[cur_buf[t].id] = 0
              /\ \A i \in 1 .. Len(queue) : queue[i].id # cur_buf[t].id

\* Witness of C2: two threads refine two buffers at the same time after a
\* first buffer has been processed.
C2_Witness ==
    /\ \E t1, t2 \in Threads : t1 # t2 /\ pc[t1] = "process" /\ pc[t2] = "process"
    /\ \E b \in BufIds : n_processed[b] = 1

\* C8: the flag of a non-primary thread i is raised only by a step of
\* thread i-1 at its activation check, having read a backlog strictly above
\* activation_threshold[i] while thread i was inactive; thread i leaves its
\* wait for the loop only with the flag raised; a mutator's enqueue raises
\* no flag but the queue's own (thread 0).
C8_ActivatedByPredecessor ==
    [][ \A i \in Threads \ {0} :
          /\ (~active[i] /\ active'[i]) =>
                /\ pc[i - 1] = "next"
                /\ pc'[i - 1] = "apply"
                /\ curr_buffer_num[i - 1] > activation_threshold[i]
          /\ (pc[i] = "wait" /\ pc'[i] = "join") => active[i]
      ]_vars

\* Witness of C8: thread 1 refines a buffer after thread 0 switched it on.
C8_Witness == active[1] /\ pc[1] = "process" /\ pc[0] # "wait"

\* C9: thread 2 is out of its wait only after the backlog has been above
\* activation_threshold[2]; a backlog that stays below it leaves thread 2
\* Idle.
C9_Hysteresis ==
    (peak <= activation_threshold[2]) =>
        (pc[2] \in {"wait", "done"} /\ ~active[2])

\* Witness of C9: the backlog rose above activation_threshold[1] and stayed
\* below activation_threshold[2]; thread 1 was switched on, thread 2 was not.
C9_Witness ==
    /\ peak > activation_threshold[1]
    /\ peak < activation_threshold[2]
    /\ active[1] /\ pc[1] = "process"
    /\ pc[2] = "wait" /\ ~active[2]

InLoop(t) == pc[t] \in {"loop", "yield", "next", "apply", "process"}

\* C10: a thread leaves its processing loop for deactivate() only on
\* termination or with the backlog at or below its deactivation threshold,
\* and at the take-a-buffer step it leaves exactly when the backlog is at or
\* below that threshold.
C10_DeactivateAtThreshold ==
    [][ \A t \in Threads :
          /\ (InLoop(t) /\ pc'[t] = "deact") =>
                (should_terminate \/ completed_buffers_num <= deactivation_threshold[t])
          /\ (pc[t] = "apply" /\ pc'[t] # "apply") =>
                (pc'[t] = "deact" <=> completed_buffers_num <= deactivation_threshold[t])
      ]_vars

\* Witness of C10: a thread is about to deactivate, without termination,
\* with buffers left at its deactivation threshold.
C10_Witness ==
    \E t \in Threads :
        /\ pc[t] = "deact"
        /\ ~should_terminate
        /\ completed_buffers_num > 0
        /\ completed_buffers_num = deactivation_threshold[t]

BufQueued(b) == \E i \in 1 .. Len(queue) : queue[i].id = b

\* C6 as stated: without shutdown, no enqueued buffer stays in the queue
\* forever.
C6_EveryBufferDrained ==
    \A b \in BufIds : BufQueued(b) ~> ~BufQueued(b)

\* C6 amended: without shutdown, every enqueued buffer is eventually taken
\* off the queue, or the chain goes quiescent with it still queued (every
\* thread waiting with its flag clear, the backlog left for a later
\* activation or the pause).
C6_DrainedOrQuiesced ==
    \A b \in BufIds : BufQueued(b) ~> (~BufQueued(b) \/ Quiesced)

\* Witness of C6: a refinement thread has drained the first buffer, a later
\* one is left in the queue and the chain is quiescent.
C6_Witness ==
    /\ Quiesced /\ n_safepoints = 0
    /\ n_processed[1] = 1
    /\ queue # <<>>

\* C7: no refinement thread is between taking and finishing a buffer while
\* the safepoint operation runs, and none takes or refines one then; a
\* thread at the loop head that sees the request pending yields; a thread
\* leaving yield() is back at the loop head, where a raised termination
\* flag makes it leave the loop; and a requested safepoint always begins.
C7_SafepointCooperation ==
    /\ [](in_pause => \A t \in Threads : InLoop(t) => pc[t] = "yield")
    /\ [][ \A t \in Threads :
              /\ in_pause => (cur_buf'[t] = cur_buf[t] /\ ~Holding(t))
              /\ (pc[t] = "loop" /\ pc'[t] # "loop" /\ suspend_all /\ ~should_terminate)
                    => pc'[t] = "yield"
              /\ (pc[t] = "yield" /\ pc'[t] # "yield") => pc'[t] = "loop"
              /\ (pc[t] = "loop" /\ pc'[t] # "loop" /\ should_terminate)
                    => pc'[t] = "deact"
        ]_vars
    /\ ((suspend_all /\ ~in_pause) ~> in_pause)

\* Witness of C7: the pause runs while a thread that was refining is
\* stopped in yield() with buffers left for it above its threshold.
C7_Witness ==
    /\ in_pause
    /\ \E t \in Threads :
          /\ pc[t] = "yield"
          /\ completed_buffers_num > deactivation_threshold[t]
    /\ \E b \in BufIds : n_processed[b] = 1

AllDone == \A t \in Threads : pc[t] = "done"

\* The thread will see should_terminate() at its next check, or has seen it.
Stopping(t) == should_terminate /\ pc[t] \in {"deact", "wait", "done"}

\* C12: once the termination flag is set and the monitors are notified,
\* every refinement thread, idle or active, eventually leaves run_service,
\* and a thread that has seen should_terminate() takes no further buffer.
C12_Shutdown ==
    /\ should_terminate ~> AllDone
    /\ [][\A t \in Threads :
            Stopping(t) => (Stopping(t)' /\ cur_buf'[t] = NoBuf)]_vars

\* The chain was shut down while a thread was refining and another was idle:
\* every thread is out, and buffers are left on the queue.
C12_Witness ==
    /\ AllDone
    /\ queue # <<>>
    /\ \E b \in BufIds : n_processed[b] > 0

(* ------------------------------------------------------------------ *)
(* Properties of the heap regions                                        *)
(* ------------------------------------------------------------------ *)

\* The step is a HeapRegion call named op.
Called(op) == hr_calls' # hr_calls /\ hr_last'.op = op

\* The type a call asks the region to take.
RequestedType(call) ==
    CASE call.op = "set_free" -> "Free"
      [] call.op = "hr_clear" -> "Free"
      [] call.op = "initialize" -> "Free"
      [] call.op = "set_type" -> call.flags[1]
      [] call.op = "set_starts_humongous" -> "StartsHumongous"
      [] call.op = "set_continues_humongous" -> "ContinuesHumongous"
      [] OTHER -> "none"

\* C13: every type change of a region is an edge of the legal graph (Free to
\* any other type, any type to Free), and a call that asks for another
\* change fails an assertion and leaves the regions as they were.
C13_LegalTransitions ==
    [][/\ \A r \in HRegions :
            hr'[r].type # hr[r].type =>
                (hr[r].type = "Free" \/ hr'[r].type = "Free")
       /\ hr_failed' => hr' = hr
       /\ (/\ hr_calls' # hr_calls
           /\ RequestedType(hr_last') \notin {"none", "Free"}
           /\ hr[hr_last'.r].type # "Free") => hr_failed']_vars

\* set_eden on a ContinuesHumongous region was rejected.
C13_Witness ==
    /\ hr_failed
    /\ hr_last.op = "set_type"
    /\ hr_last.flags = <<"Eden">>
    /\ hr[hr_last.r].type = "ContinuesHumongous"

\* C14 as stated: bottom <= top <= end for every region, and top == bottom
\* for every Free region.
C14_TopWithinBoundsFreeEmpty ==
    \A r \in HRegions :
        /\ bottom(r) <= hr[r].top
        /\ hr[r].top <= end(r)
        /\ is_free(hr[r]) => hr[r].top = bottom(r)

\* C14 as amended: bottom <= top <= end for every region, and a region
\* that initialize, or hr_clear with clear_space, has just freed is Free
\* with top == bottom.
C14_TopWithinBoundsClearSpace ==
    /\ \A r \in HRegions : bottom(r) <= hr[r].top /\ hr[r].top <= end(r)
    /\ (/\ ~hr_failed
        /\ \/ hr_last.op = "initialize"
           \/ hr_last.op = "hr_clear" /\ hr_last.flags[2])
       => (is_free(hr[hr_last.r]) /\ hr[hr_last.r].top = bottom(hr_last.r))

\* One region was freed with clear_space and is empty, while another was
\* allocated in and freed without clear_space and is not.
C14_Witness ==
    /\ ~hr_failed
    /\ hr_last.op = "hr_clear"
    /\ hr_last.flags[2]
    /\ hr[hr_last.r].top = bottom(hr_last.r)
    /\ \E r \in HRegions : is_free(hr[r]) /\ hr[r].top > bottom(r)

\* C15 as stated: a ContinuesHumongous region refers to a region that is
\* StartsHumongous, a StartsHumongous region to itself, any other region
\* to none.
C15_BackReferenceConsistent ==
    \A r \in HRegions :
        /\ is_continues_humongous(hr[r]) =>
              /\ hr[r].humongous_start_region # NULL
              /\ is_starts_humongous(hr[hr[r].humongous_start_region])
        /\ is_starts_humongous(hr[r]) => hr[r].humongous_start_region = r
        /\ ~is_humongous(hr[r]) => hr[r].humongous_start_region = NULL

\* A region's back-reference is as its type allows, NULL included.
BackReferenceShape ==
    \A r \in HRegions :
        /\ is_starts_humongous(hr[r]) =>
              hr[r].humongous_start_region \in {NULL, r}
        /\ is_continues_humongous(hr[r]) =>
              hr[r].humongous_start_region \in (HRegions \cup {NULL}) \ {r}
        /\ ~is_humongous(hr[r]) => hr[r].humongous_start_region = NULL

\* C15 as amended: a StartsHumongous region refers to itself or, from
\* clear_humongous on, to none; a ContinuesHumongous region to none or to
\* another region, which was StartsHumongous when the reference was
\* stored; any other region to none.
C15_BackReferenceUntilCleared ==
    /\ []BackReferenceShape
    /\ [][\A r \in HRegions :
            (/\ hr'[r].humongous_start_region # hr[r].humongous_start_region
             /\ hr'[r].humongous_start_region \notin {NULL, r})
            => (/\ is_continues_humongous(hr'[r])
                /\ is_starts_humongous(hr[hr'[r].humongous_start_region]))]_vars

\* The start region was reclaimed: its continuation still refers to it.
C15_Witness ==
    \E r \in HRegions :
        /\ is_continues_humongous(hr[r])
        /\ hr[r].humongous_start_region # NULL
        /\ is_free(hr[hr[r].humongous_start_region])

\* C16: hr_clear leaves the region Free with an empty remembered set, or,
\* with keep_remset, with the remembered set it had; locked plays no part.
C16_RemSetClearedUnlessKept ==
    [][(Called("hr_clear") /\ ~hr_failed') =>
           LET r == hr_last'.r
               keep_remset == hr_last'.flags[1]
           IN  /\ is_free(hr'[r])
               /\ hr'[r].rem_set = IF keep_remset THEN hr[r].rem_set ELSE {}]_vars

\* A region was freed under the lock with keep_remset and has kept its
\* remembered set.
C16_Witness ==
    /\ ~hr_failed
    /\ hr_last.op = "hr_clear"
    /\ hr_last.flags[1]
    /\ hr_last.flags[3]
    /\ is_free(hr[hr_last.r])
    /\ hr[hr_last.r].rem_set # {}

\* C17: a second hr_clear with the same flags on the region just cleared
\* changes neither top, nor the type, nor the marked bytes, nor whether the
\* remembered set is empty.
C17_ClearIdempotent ==
    [][(Called("hr_clear") /\ hr_repeat' /\ ~hr_failed') =>
           LET r == hr_last'.r
           IN  /\ hr'[r].top = hr[r].top
               /\ is_free(hr[r]) /\ is_free(hr'[r])
               /\ hr'[r].prev_marked_bytes = hr[r].prev_marked_bytes
               /\ hr'[r].next_marked_bytes = hr[r].next_marked_bytes
               /\ (hr'[r].rem_set = {}) = (hr[r].rem_set = {})]_vars

\* A region that had been allocated in was cleared twice, keeping its space.
C17_Witness ==
    /\ ~hr_failed
    /\ hr_repeat
    /\ hr_last.op = "hr_clear"
    /\ ~hr_last.flags[2]
    /\ hr[hr_last.r].top > bottom(hr_last.r)

\* C18: hr_clear on a region that is in the collection set or still has a
\* humongous back-reference fails an assertion and frees nothing; a region
\* becomes Free only with neither, and a humongous region loses its
\* back-reference only through clear_humongous.
C18_ClearRejected ==
    [][/\ \A r \in HRegions :
            (is_free(hr'[r]) /\ ~is_free(hr[r])) =>
                /\ hr[r].humongous_start_region = NULL
                /\ ~hr[r].in_collection_set
                /\ hr_last'.op \in {"hr_clear", "initialize"}
                /\ hr_last'.r = r
       /\ (/\ Called("hr_clear")
           /\ \/ hr[hr_last'.r].in_collection_set
              \/ hr[hr_last'.r].humongous_start_region # NULL)
          => (hr_failed' /\ hr' = hr)
       /\ \A r \in HRegions :
            (/\ is_humongous(hr'[r])
             /\ hr'[r].humongous_start_region = NULL
             /\ hr[r].humongous_start_region # NULL)
            => (hr_last'.op = "clear_humongous" /\ hr_last'.r = r)]_vars

\* The start region was freed through clear_humongous and hr_clear; hr_clear
\* on its continuation, which has its back-reference, was rejected.
C18_Witness ==
    /\ hr_failed
    /\ hr_last.op = "hr_clear"
    /\ is_continues_humongous(hr[hr_last.r])
    /\ hr[hr_last.r].humongous_start_region # NULL
    /\ is_free(hr[hr[hr_last.r].humongous_start_region])

(* ------------------------------------------------------------------ *)
(* Properties of the humongous card scan                                 *)
(* ------------------------------------------------------------------ *)

\* The scans that returned and the one under way.
AllScans == scans \cup (IF s_pc = "idle" THEN {} ELSE {s_scan})

\* C19: a card scan of a humongous region that runs with no collection
\* active and reads a NULL klass returns false and applies the closure to
\* no field, and no scan ever applies the closure to a field of the object
\* whose initial value it cannot see yet.
C19_NoHalfConstructedScan ==
    \A s \in AllScans :
        /\ s.unset = {}
        /\ (~s.gc /\ s.klass = NULL /\ s.result # "none") =>
               (s.result = "false" /\ s.visited = {})
        /\ (~s.gc /\ s.klass = NULL) => s.visited = {}

\* One scan ran into the allocation and returned false; a later one found
\* the object published and visited its fields.
C19_Witness ==
    \E s1 \in scans, s2 \in scans :
        /\ s1.result = "false"
        /\ s2.result = "true"
        /\ s2.visited = HFields
        /\ ~s2.gc

\* What a scan of a live humongous object applies the closure to: the card
\* for an objArray or a card past the object's start, every field otherwise.
HumScanned(s) ==
    IF s.is_objArray \/ 1 \notin s.mr THEN s.mr ELSE HFields

\* C34 as stated: the card scan of a humongous region visits no field of a
\* dead object, and visits a live object, and only it, bounded by mr for an
\* objArray or a card past the object's start and in full otherwise.
C34_HumongousOneUnit ==
    \A s \in scans :
        /\ s.dead => s.visited = {}
        /\ ~s.dead => s.visited = HumScanned(s)

\* C34 as amended: a scan that runs with no collection active and reads a
\* NULL klass returns false without asking for liveness or visiting a
\* field; every other scan asks for the liveness of the one object at the
\* start region's bottom, visits no field if it is dead, visits it bounded
\* by mr (objArray, or card past the object's start) or in full if it is
\* live, and returns true.
C34_HumongousOneUnitIfPublished ==
    \A s \in scans :
        IF ~s.gc /\ s.klass = NULL
        THEN s.result = "false" /\ ~s.queried /\ s.visited = {}
        ELSE /\ s.result = "true"
             /\ s.queried
             /\ s.dead => s.visited = {}
             /\ ~s.dead => s.visited = HumScanned(s)

\* A scan of a card past the start of a live, published object that is not
\* an objArray visited the card's fields only; another found the object
\* dead and visited nothing.
C34_Witness ==
    \E s1 \in scans, s2 \in scans :
        /\ s1.klass # NULL /\ ~s1.dead /\ ~s1.is_objArray
        /\ 1 \notin s1.mr
        /\ s1.visited = s1.mr
        /\ s1.visited # HFields
        /\ s2.dead /\ s2.queried /\ s2.visited = {} /\ s2.result = "true"

(* ------------------------------------------------------------------ *)
(* Properties of the card scan of an old region                          *)
(* ------------------------------------------------------------------ *)

\* The blocks of the scanned region that overlap [start, end).
Overlapping ==
    {i \in 1 .. Len(scan.blocks) :
        /\ BlockStart(scan.blocks, i) < scan.end
        /\ BlockStart(scan.blocks, i) + scan.blocks[i].size > scan.start}

\* How the closure is to be applied to the object that starts at obj.
ScanMode(obj) ==
    LET i == BlockIndex(scan.blocks, obj)
    IN  IF /\ scan.blocks[i].is_objArray
           /\ ~(obj >= scan.start /\ obj + scan.blocks[i].size <= scan.end)
        THEN "bounded" ELSE "full"

\* C33: the card scan of an old region starts at the block that contains
\* mr.start and steps from block to block, each once; it never applies the
\* closure to a dead object; when it returns it has applied the closure
\* once to every live object that overlaps mr and to nothing else, bounded
\* by mr exactly for the objArrays mr does not cover, the cursor is at or
\* past mr.end and the result is true.
C33_CardScanVisitsLive ==
    /\ \A k \in 1 .. Len(scan.visits) : ~is_obj_dead(scan.blocks, scan.visits[k].obj)
    /\ scan.pc # "idle" =>
          /\ scan.cur <= scan.start \/ Len(scan.steps) > 0
          /\ Len(scan.steps) > 0 =>
                scan.steps[1] = block_start(scan.blocks, scan.start)
          /\ \A k \in 1 .. (Len(scan.steps) - 1) :
                scan.steps[k + 1] =
                    scan.steps[k] + block_size(scan.blocks, scan.steps[k])
    /\ scan.pc = "done" =>
          /\ {scan.steps[k] : k \in 1 .. Len(scan.steps)} =
                {BlockStart(scan.blocks, i) : i \in Overlapping}
          /\ {scan.visits[k].obj : k \in 1 .. Len(scan.visits)} =
                {BlockStart(scan.blocks, i) :
                    i \in {j \in Overlapping : scan.blocks[j].live}}
          /\ \A k, l \in 1 .. Len(scan.visits) :
                scan.visits[k].obj = scan.visits[l].obj => k = l
          /\ \A k \in 1 .. Len(scan.visits) :
                scan.visits[k].mode = ScanMode(scan.visits[k].obj)
          /\ scan.cur >= scan.end
          /\ scan.ret = TRUE

\* A scan of a card that begins inside a live objArray, runs over a dead
\* object and ends with a live object: the first was iterated bounded by
\* the card, the last in full.
C33_Witness ==
    /\ scan.pc = "done"
    /\ Len(scan.steps) = 3
    /\ Len(scan.visits) = 2
    /\ scan.steps[1] < scan.start
    /\ scan.visits[1].mode = "bounded"
    /\ scan.visits[2].mode = "full"
    /\ scan.visits[2].obj = scan.steps[3]

(* ------------------------------------------------------------------ *)
(* Properties of the time stamps                                         *)
(* ------------------------------------------------------------------ *)

\* The last scan_top() call returned top if the stamp it read was older
\* than the heap's, and the recorded _scan_top otherwise.
ScanTopRead ==
    ts.read.called =>
        ts.read.value = IF ts.read.gc_time_stamp < ts.read.global
                        THEN ts.read.top ELSE ts.read.scan_top

\* C35: a region's gc_time_stamp is never above the heap's time stamp and
\* never decreases; scan_top() returns top while the region's stamp is
\* older than the heap's and _scan_top otherwise; and whenever
\* record_timestamp advances the stamp, _scan_top is bottom, or is top in a
\* region that record_retained_region was called on.
C35_TimeStampProtocol ==
    /\ [](ts.gc_time_stamp <= ts.global /\ ScanTopRead)
    /\ [][/\ ts'.gc_time_stamp >= ts.gc_time_stamp
          /\ (ts'.op = "record_timestamp" /\ ts'.gc_time_stamp > ts.gc_time_stamp) =>
                /\ ts.scan_top = 0 \/ ts.scan_top = ts.top
                /\ ts.scan_top # 0 => ts.retained]_vars

\* record_timestamp has just advanced the stamp of a retained region whose
\* _scan_top is top, above bottom, and scan_top() had returned top while
\* the stamp was older.
C35_Witness ==
    /\ ts.op = "record_timestamp"
    /\ ts.gc_time_stamp = ts.global
    /\ ts.global > 0
    /\ ts.retained
    /\ ts.scan_top = ts.top
    /\ ts.top > 0
    /\ ts.read.called
    /\ ts.read.gc_time_stamp < ts.read.global
    /\ ts.read.gc_time_stamp < ts.gc_time_stamp

(* ------------------------------------------------------------------ *)
(* Properties of the dictionary                                          *)
(* ------------------------------------------------------------------ *)

C37_PdSetDistinct ==
    /\ \A c \in Classes :
          /\ \A i, j \in 1 .. Len(dict.pd_set[c]) :
                dict.pd_set[c][i].pd = dict.pd_set[c][j].pd => i = j
          /\ klass_pd(c) = NULL \/ klass_pd(c) \notin PdsOf(c)
    /\ dict.last_add.c # 0 =>
          contains_protection_domain(dict.last_add.c, dict.last_add.p)

\* add_protection_domain has returned for the klass's own protection
\* domain, which is not in the pd_set, after the other protection domains
\* had been added.
C37_Witness ==
    \E c \in Classes :
        /\ dict.last_add = [c |-> c, p |-> klass_pd(c)]
        /\ PdsOf(c) = PDs \ {klass_pd(c)}
        /\ PdsOf(c) # {}
        /\ dict.writer.pc = "idle"

(* ------------------------------------------------------------------ *)
(* Properties of a module entry                                          *)
(* ------------------------------------------------------------------ *)

\* The handles the callers still inside set_shared_protection_domain hold.
HeldHandles == {mod.obj[c] : c \in {d \in Callers : mod.pc[d] # "idle"}}

\* C38: under concurrent set_shared_protection_domain calls _pd goes from
\* NULL to a handle once and then never changes; the handle in _pd stays
\* registered; every other registered handle belongs to a caller that has
\* not returned yet, so once every caller has returned exactly one of the
\* created handles is registered, the one in _pd.
C38_PdSetOnce ==
    /\ [][mod.pd # NULL => mod'.pd = mod.pd]_vars
    /\ [](/\ mod.pd # NULL => mod.pd \in mod.handles
          /\ mod.handles \subseteq ({mod.pd} \cup HeldHandles)
          /\ (mod.n_handles > 0 /\ HeldHandles = {}) => mod.handles = {mod.pd})

\* Every call made has returned: the first handle that reached the
\* compare-and-swap is in _pd and is the only one registered, the others
\* were created and removed.
C38_Witness ==
    /\ mod.n_handles = MaxPdCalls
    /\ \A c \in Callers : mod.pc[c] = "idle"
    /\ mod.pd # NULL
    /\ mod.pd # 1
    /\ mod.handles = {mod.pd}

\* The modules of the reads list that a dead loader can take with it.
ForeignReads ==
    {m \in Modules :
        /\ InReads(m)
        /\ loader_data(m) # own_loader
        /\ ~is_builtin_class_loader_data(loader_data(m))}

\* C39: whenever the reads list holds a module of a loader that is neither
\* the reading module's own nor a builtin loader, _must_walk_reads is true;
\* after purge_reads the list holds no module whose loader is unloading;
\* the list never holds a module twice; and add_read(NULL) sets
\* can-read-all-unnamed and leaves the list and the flag alone.
C39_ReadsWalked ==
    /\ [](/\ ForeignReads # {} => mod.must_walk_reads
          /\ mod.op = "purge_reads" =>
                \A m \in Modules : InReads(m) => loader_data(m) \notin mod.unloading
          /\ \A i, j \in 1 .. Len(mod.reads) :
                mod.reads[i] = mod.reads[j] => i = j)
    /\ [][mod'.op = "add_read_null" =>
            /\ mod'.can_read_all_unnamed
            /\ mod'.reads = mod.reads
            /\ mod'.must_walk_reads = mod.must_walk_reads]_vars

\* purge_reads took the module of a dead loader off a list that still holds
\* a module of another foreign loader, one of a builtin loader and one of
\* the module's own loader.
C39_Witness ==
    /\ mod.op = "purge_reads"
    /\ mod.unloading # {}
    /\ Len(mod.reads) = NModules - 1
    /\ ForeignReads # {}
    /\ mod.must_walk_reads
    /\ InReads(own_loader) /\ InReads(builtin_loader)

(* ------------------------------------------------------------------ *)
(* Properties of the log configuration                                   *)
(* ------------------------------------------------------------------ *)

LogHolds(l, o) == \E i \in 1 .. n_outputs(l) : l.outputs[i] = o

LogUsed(l, o) == \E t \in TagSets : has_output(l, t, o)

\* C40: after initialize, whatever is configured, disabled, added or
\* deleted, n_outputs >= 2 and indices 0 and 1 hold stdout and stderr;
\* disabling one of them leaves the array alone and sets its config string
\* to all=off; an output of index > 1 that no tag set uses after
\* configure_output is removed; after disable_logging exactly the two
\* standard outputs remain.
C40_StandardOutputsPermanent ==
    /\ [](logc.initialized =>
            /\ n_outputs(logc) >= 2
            /\ logc.outputs[1] = StdoutLog
            /\ logc.outputs[2] = StderrLog
            /\ logc.op = "disable_logging" => logc.outputs = <<StdoutLog, StderrLog>>)
    /\ [][/\ (logc'.op = "disable_output" /\ logc'.arg <= StderrLog) =>
               /\ logc'.outputs = logc.outputs
               /\ logc'.config[logc.outputs[logc'.arg + 1]] = AllOff
          /\ (/\ logc'.op = "configure_output"
              /\ logc'.arg > StderrLog
              /\ ~LogUsed(logc', logc.outputs[logc'.arg + 1])) =>
               ~LogHolds(logc', logc.outputs[logc'.arg + 1])]_vars

\* disable_logging found every file output in use and left stdout and
\* stderr, both switched off.
C40_Witness ==
    /\ logc.op = "disable_logging"
    /\ logc.prev_n = StderrLog + NFiles + 1
    /\ logc.outputs = <<StdoutLog, StderrLog>>
    /\ logc.config[StdoutLog] = AllOff
    /\ \A o \in LogOutputs : ~LogUsed(logc, o)

(* ------------------------------------------------------------------ *)
(* Properties of remembered set verification                             *)
(* ------------------------------------------------------------------ *)

\* A live object of the verified region whose non-null field points into
\* another region whose remembered set does not contain the field.
MissingEntry(o) ==
    /\ ~o.dead
    /\ o.field \in {"other", "pinned"}
    /\ ~o.in_rem_set

\* The cards that excuse a missing entry while log buffers are not flushed
\* for verification: the field's, and for an object that is not an objArray
\* also its head's.
ExcusedByDirtyCard(o) ==
    /\ ~G1HRRSFlushLogBuffersOnVerify
    /\ o.cv_field_dirty \/ (~o.is_objArray /\ o.cv_obj_dirty)

\* C20 as stated: if a live object of the verified region has a non-null
\* field into another region whose remembered set lacks it, verification
\* reports failure, and changes nothing.
C20_EveryMissingEntryFlagged ==
    v_result.done =>
        /\ (\E p \in VObjects : MissingEntry(v_before[p])) => v_result.failures
        /\ v_obj = v_before

\* C20 as amended: the same for entries missing from a region that is not
\* pinned, when the verified region is not young, no dirty card excuses the
\* entry and G1MaxVerifyFailures is not 0.
C20_UnexcusedMissingEntryFlagged ==
    v_result.done =>
        /\ (\E p \in VObjects :
              /\ MissingEntry(v_before[p])
              /\ v_before[p].field # "pinned"
              /\ ~v_from_young
              /\ v_max_failures # 0
              /\ ~ExcusedByDirtyCard(v_before[p])) => v_result.failures
        /\ v_obj = v_before

\* Verification walked past a live object with its entry in place and
\* reported the missing entry of the object after it, an objArray whose
\* head card is dirty.
C20_Witness ==
    /\ v_result.done
    /\ v_result.failures
    /\ ~v_obj[1].dead /\ v_obj[1].in_rem_set
    /\ MissingEntry(v_obj[NVObjects])
    /\ v_obj[NVObjects].is_objArray
    /\ v_obj[NVObjects].cv_obj_dirty

(* ------------------------------------------------------------------ *)
(* Properties of the active loop                                         *)
(* ------------------------------------------------------------------ *)

\* C26 as stated: the deactivation condition is checked before the successor
\* is considered, so a thread that goes Idle has not activated its successor
\* in that iteration.
C26_IdleWithoutActivating ==
    [][\A t \in Threads :
          (pc[t] = "apply" /\ pc'[t] = "deact") => t \notin did_activate]_vars

\* C26 as amended: in each iteration an Active thread first checks for
\* termination and a safepoint request, then reads the backlog and activates
\* its successor if that is inactive and the backlog read exceeds the
\* successor's activation threshold, and only then either goes Idle (the
\* backlog now at or below its own deactivation threshold) or takes exactly
\* one buffer and processes it.
C26_StepOrder ==
    [][\A t \in Threads :
          /\ (pc[t] = "loop" /\ pc'[t] = "next") =>
                ~should_terminate /\ ~suspend_all
          /\ (pc[t] # "apply" /\ pc'[t] = "apply") => pc[t] = "next"
          /\ (t \in did_activate' /\ t \notin did_activate) =>
                /\ pc[t] = "next"
                /\ ~is_active(t + 1)
                /\ curr_buffer_num[t] > activation_threshold[t + 1]
                /\ IF is_primary(t + 1) THEN process_completed' ELSE active'[t + 1]
          /\ (pc[t] = "apply" /\ pc'[t] = "deact") =>
                Len(queue) <= deactivation_threshold[t]
          /\ (pc[t] = "apply" /\ pc'[t] = "process") =>
                /\ Len(queue) > deactivation_threshold[t]
                /\ queue' = Tail(queue)
                /\ cur_buf'[t] = Head(queue)
          /\ (pc[t] = "process" /\ pc'[t] # "process") =>
                pc'[t] = "loop" /\ queue' = queue]_vars

\* A thread that activated its successor in this iteration is about to go
\* Idle: the backlog has fallen to its deactivation threshold since.
C26_Witness ==
    \E t \in Threads :
        /\ pc[t] = "apply"
        /\ t \in did_activate
        /\ is_active(t + 1)
        /\ Len(queue) <= deactivation_threshold[t]

\* Thread i is in its active loop with the backlog above the activation
\* threshold of its successor.
Sustained(i) ==
    /\ pc[i] \in {"loop", "yield", "next", "apply", "process"}
    /\ Len(queue) > activation_threshold[i + 1]

\* C28: while thread i stays in its active loop and the backlog stays above
\* activation_threshold[i+1], an Idle thread i+1 eventually becomes Active:
\* thread i activates it at the activation check of its next iteration that
\* is not spent yielding, where it read a backlog above that threshold.
C28_CascadeRecruitment ==
    /\ \A i \in 0 .. (NThreads - 2) :
          (Sustained(i) /\ ~is_active(i + 1))
              ~> (is_active(i + 1) \/ ~Sustained(i))
    /\ [][\A i \in 0 .. (NThreads - 2) :
            (/\ pc[i] = "next" /\ pc'[i] # "next"
             /\ ~is_active(i + 1)
             /\ curr_buffer_num[i] > activation_threshold[i + 1])
                => (is_active(i + 1))']_vars

\* The last thread of the chain has been recruited by its predecessor, which
\* is still in the iteration of the activation, the backlog still above the
\* threshold.
C28_Witness ==
    /\ (NThreads - 2) \in did_activate
    /\ is_active(NThreads - 1)
    /\ pc[NThreads - 1] = "wait"
    /\ Sustained(NThreads - 2)

\* C27: a thread whose active flag was set by a completed activate() and
\* has not been cleared since is not left blocked in the monitor wait: it
\* leaves wait_for_completed_buffers.
C27_NoLostWakeup ==
    (/\ m_active
     /\ t_pc \in {"lock", "test", "waiting", "notified"}
     /\ \A a \in Activators : a_pc[a] # "notify")
        ~> (t_pc = "running")

\* activate() completed while the thread was blocked in wait(): the flag is
\* set, the thread has been notified and has not run yet.
C27_Witness ==
    /\ m_active
    /\ t_pc = "notified"
    /\ m_owner = 0
    /\ \E a \in Activators : a_pc[a] = "lock"

(* ------------------------------------------------------------------ *)
(* Properties of PLAB sizing                                             *)
(* ------------------------------------------------------------------ *)

\* adjust_desired_plab_sz has just returned.
Adjusted == p_pc = "adjusted" /\ p_rounds > 0

C22_CountersResetFilterKept ==
    Adjusted =>
        /\ \A c \in DOMAIN p_stats : p_stats[c] = 0
        /\ p_filter = IF ResizePLAB
                      THEN filter_sample(p_before.filter, cur_plab_sz(p_fed))
                      ELSE p_before.filter

\* A later call, all accumulators fed, found an average that the new sample
\* did not replace.
C22_Witness ==
    /\ Adjusted
    /\ ResizePLAB
    /\ p_rounds > 1
    /\ \A c \in {"allocated", "wasted", "unused", "region_end_waste",
                 "regions_filled", "failure_used"} : p_fed[c] > 0
    /\ p_before.filter > 0
    /\ p_filter # cur_plab_sz(p_fed) * FilterScale
    /\ p_stats = ZeroStats

\* C23: with ResizePLAB off, adjust_desired_plab_sz leaves the desired size
\* and the filter as they were, whatever the counters, and resets the
\* counters.
C23_DisabledOnlyResets ==
    (Adjusted /\ ~ResizePLAB) =>
        /\ p_desired = p_before.desired
        /\ p_filter = p_before.filter
        /\ p_stats = ZeroStats

\* A disabled call after a collection that allocated through its buffers.
C23_Witness ==
    /\ Adjusted
    /\ ~ResizePLAB
    /\ p_fed.allocated > 0
    /\ p_fed.region_end_waste > 0
    /\ p_desired = max_size

\* The closed form: what was used, less region end waste, times the target
\* waste over the occupancy of the last buffer.
WasteAllowed(st) ==
    LET u == IF st.allocated > st.region_end_waste
             THEN st.allocated - st.region_end_waste ELSE 0
    IN  u * TargetPLABWastePct

IdealSize(st) == WasteAllowed(st) \div G1LastPLABAverageOccupancy

Near(a, b) == a - b <= 1 /\ b - a <= 1

\* C24 as stated: with the same counters fed every round the desired size
\* comes to within the tolerance of the closed-form ideal size and stays
\* there.
C24_ConvergesToIdeal == <>[]Near(p_desired, IdealSize(p_fed))

\* With sizing enabled and the waste allowed fitting a size_t, the desired
\* size is within the tolerance of the larger of min_size and the ideal size.
NearIdealOrMin ==
    (ResizePLAB /\ WasteAllowed(p_fed) < 2 ^ SizeTBits)
        => Near(p_desired, MAX2(min_size, IdealSize(p_fed)))

\* C24 as amended: with ResizePLAB on and no overflow of the waste allowed,
\* the desired size comes to within the tolerance of the larger of min_size
\* and the closed-form ideal size and stays there.
C24_ConvergesToIdealOrMin == <>[]NearIdealOrMin

\* The desired size moved up to an ideal size above min_size and the next
\* round left it there.
C24_Witness ==
    /\ Adjusted
    /\ ResizePLAB
    /\ p_rounds = MaxPlabRounds
    /\ IdealSize(p_fed) > min_size
    /\ Near(p_desired, IdealSize(p_fed))
    /\ p_before.desired = p_desired
    /\ p_before.filter # p_filter

\* The counts of a collection with w words used and nothing else.
UsedOnly(w) == [ZeroStats EXCEPT !.allocated = w]

\* C31: with resizing enabled and the waste allowed fitting a size_t, the
\* sample fed to the filter is floor(max(0, used - region_end_waste) *
\* TargetPLABWastePct / G1LastPLABAverageOccupancy), 0 when region end waste
\* exceeds what was used; 100 words used give 20 words.
C31_SampleIsClosedForm ==
    /\ (Adjusted /\ ResizePLAB /\ WasteAllowed(p_fed) < 2 ^ SizeTBits) =>
          /\ p_filter = filter_sample(p_before.filter, IdealSize(p_fed))
          /\ p_fed.region_end_waste >= p_fed.allocated =>
                p_filter = filter_sample(p_before.filter, 0)
    /\ cur_plab_sz(UsedOnly(100)) = 20

\* A resizing call after a collection whose region end waste exceeded what
\* it allocated: the sample was 0 and halved the average.
C31_Witness ==
    /\ Adjusted
    /\ ResizePLAB
    /\ p_fed.allocated > 0
    /\ p_fed.region_end_waste > p_fed.allocated
    /\ p_before.filter > 0
    /\ p_filter = filter_sample(p_before.filter, 0)

\* C32: a resizing call of adjust_desired_plab_sz with allocated == 0 goes
\* through only when the wasted and the unused counters are both zero, and
\* then computes with allocated as 1; the assertion stops every other round
\* that reports no allocation, and no other round.
C32_ZeroAllocationChecked ==
    /\ (Adjusted /\ ResizePLAB /\ p_fed.allocated = 0) =>
          /\ p_fed.wasted = 0
          /\ p_fed.unused = 0
          /\ p_filter = filter_sample(p_before.filter,
                                      IdealSize([p_fed EXCEPT !.allocated = 1]))
    /\ p_pc = "failed" =>
          /\ ResizePLAB
          /\ p_fed.allocated = 0
          /\ p_fed.wasted # 0 \/ p_fed.unused # 0

(* ------------------------------------------------------------------ *)
(* Properties of identity_hash                                           *)
(* ------------------------------------------------------------------ *)

\* C25: identity_hash() on an unlocked mark word that holds a hash returns
\* that hash and leaves the header as it was; on a locked or forwarded object
\* it takes the slow path and does not read hash bits out of the mark word.
C25_FastPathOrSlowPath ==
    ih_last.called =>
        /\ (is_unlocked(ih_last.mrk) /\ ~has_no_hash(ih_last.mrk)) =>
              /\ ih_last.path = "fast"
              /\ ih_last.value = hash(ih_last.mrk)
              /\ ih_last.after = ih_last.mrk
        /\ (is_marked(ih_last.mrk) \/ lock_bits(ih_last.mrk) # 1) =>
              ih_last.path = "slow"

(* ------------------------------------------------------------------ *)
(* Properties of forwarding                                              *)
(* ------------------------------------------------------------------ *)

Winners == {c \in calls : c.result = NULL}

\* C3: at most one forward_to_atomic call on the object returns NULL;
\* every call that returned returned NULL or the target of the call that
\* returned NULL, which is not its own target; and once every started call
\* has returned, exactly one returned NULL.
C3_ExactlyOneWinner ==
    /\ Cardinality(Winners) <= 1
    /\ \A c \in calls \ Winners :
          /\ c.result # c.p
          /\ \E win \in Winners : c.result = win.p
    /\ (n_calls > 0 /\ \A w \in Workers : fpc[w] = "idle")
          => Cardinality(Winners) = 1

\* Witness of C3: two workers raced with different targets; one call
\* returned NULL and another returned the winner's target.
C3_Witness ==
    \E c1, c2 \in calls :
        /\ c1.worker # c2.worker
        /\ c1.result = NULL
        /\ c2.result = c1.p
        /\ c2.p # c1.p

\* C4: once a forward_to_atomic call with target T has succeeded,
\* is_forwarded() is true and forwardee() is T in every later state, and no
\* step changes a mark that encodes a forwarding pointer.
C4_ForwardingMonotonic ==
    /\ [](\A c \in Winners : is_forwarded /\ forwardee = c.p)
    /\ [][is_forwarded => mark' = mark]_vars

\* Witness of C4: after a successful forward, a later call by the winner
\* itself, with another target, has returned the installed forwardee.
C4_Witness ==
    \E c1, c2 \in calls :
        /\ c1.worker = c2.worker
        /\ c1.result = NULL
        /\ c2.p # c1.p
        /\ c2.result = c1.p
        /\ forwardee = c1.p

\* Worker w makes a compare-and-exchange attempt in this step.
CasAttempt(w) ==
    /\ fpc[w] = "cas"
    /\ (fpc'[w] # "cas" \/ oldMark'[w] # oldMark[w] \/ mark' # mark)

\* C29: after every compare-and-exchange attempt of forward_to_atomic the
\* object is forwarded; an attempt that fails leaves the mark alone, has
\* observed a marked mark and leaves the loop; and a call that left the loop
\* returns forwardee() without writing the mark.
C29_ForwardedAfterEveryCas ==
    [][\A w \in Workers :
         /\ CasAttempt(w) =>
               /\ is_forwarded'
               /\ (mark # oldMark[w]) =>
                     /\ mark' = mark
                     /\ is_marked(oldMark'[w])
                     /\ oldMark'[w] = mark
                     /\ fpc'[w] = "lost"
         /\ (fpc[w] = "lost" /\ fpc'[w] # "lost") =>
               /\ mark' = mark
               /\ fpc'[w] = "idle"
               /\ [worker |-> w, p |-> fwd_p[w], result |-> forwardee]
                      \in calls' \ calls]_vars

\* Witness of C29: a worker's exchange has failed against the forwarding
\* pointer another worker installed, and it is about to return forwardee().
C29_Witness ==
    \E w \in Workers :
        /\ fpc[w] = "lost"
        /\ is_forwarded
        /\ oldMark[w] = mark
        /\ \E c \in Winners : c.worker # w /\ forwardee = c.p /\ c.p # fwd_p[w]

\* The target of the last forward_to or cas_forward_to call is one the
\* calls accept.
Accepted == check_obj_alignment(ft_last.p) /\ is_in_reserved(ft_last.p)

\* C30: forward_to(p) and cas_forward_to(p, compare) fail an assertion,
\* leaving the header as it was, exactly when p is not object-aligned or not
\* in the reserved heap; after an accepted forward_to(p) the object is
\* forwarded to p; an accepted cas_forward_to(p, compare) forwards the
\* object to p and returns true if the header was compare, and otherwise
\* returns false and leaves the header.
C30_ForwardToChecked ==
    ft_last.op # "none" =>
        /\ ft_last.failed = ~Accepted
        /\ ~Accepted => mark = ft_last.before
        /\ (Accepted /\ ft_last.op = "forward_to") =>
              is_forwarded /\ forwardee = ft_last.p
        /\ (Accepted /\ ft_last.op = "cas_forward_to") =>
              IF ft_last.before = ft_last.compare
              THEN ft_last.result /\ is_forwarded /\ forwardee = ft_last.p
              ELSE ~ft_last.result /\ mark = ft_last.before

\* Witness of C30: the object was forwarded by an accepted call, and a
\* later forward_to to an aligned address outside the reserved heap failed
\* its assertion and left the forwarding in place.
C30_Witness ==
    /\ ft_last.op = "forward_to"
    /\ ft_last.failed
    /\ check_obj_alignment(ft_last.p)
    /\ ~is_in_reserved(ft_last.p)
    /\ is_forwarded
    /\ is_in_reserved(forwardee)
    /\ mark = ft_last.before

(* ------------------------------------------------------------------ *)
(* Properties of the oop conversions                                     *)
(* ------------------------------------------------------------------ *)

\* C5: for every encoding configuration, an object address of the reserved
\* heap (or NULL) is unchanged by encode then decode, a valid narrowOop (or
\* 0) is unchanged by decode then encode, and NULL and narrow 0 map to each
\* other.
C5_RoundTrip ==
    /\ oop_step = 2 => oop_wide = oop_orig
    /\ oop_step = 12 => oop_narrow = oop_orig
    /\ oop_step = 1 => (oop_narrow = 0 <=> oop_orig = NULL)
    /\ oop_step = 11 => (oop_wide = NULL <=> oop_orig = 0)

\* Witness of C5: a round trip under a based, shifted encoding of the last
\* object address of the heap is complete.
C5_Witness ==
    /\ oop_step = 2
    /\ narrow_oop_base > 0
    /\ narrow_oop_shift > 0
    /\ oop_orig = heap_end - MinObjAlignmentInBytes
    /\ oop_narrow = NarrowSpace - 1

====
